---- MODULE Spec2Model ----
(***************************************************************************)
(* Delta-sync endpoints of backend/app/api/v1/endpoints/delta_sync.py,     *)
(* run against a document store that concurrent writers stamp with a       *)
(* shared clock, and a client that chains syncs through server_time; and   *)
(* the notification triggers of backend/app/services/notification.py,      *)
(* run against a notification store and a live-push registry that may fail.*)
(***************************************************************************)
EXTENDS Integers, Sequences, FiniteSets, TLC

VARIABLES db, now, wseq, cfg, mode, hot, req, resp, prev, client, nreq

\* The notification service: db.users, db.notifications, the push attempts made
\* through the registry, the trigger being run, the ids handed out, and the
\* counts of failures injected and of triggers called; the broadcasts that run
\* side by side; and the application process: where its lifespan stands.
VARIABLES users, notifications, pushes, trig, nid, faults, ntrig, procs, app

syncVars == <<db, now, wseq, cfg, mode, hot, req, resp, prev, client, nreq>>
notifVars == <<users, notifications, pushes, trig, nid, faults, ntrig, procs, app>>

vars == <<db, now, wseq, cfg, mode, hot, req, resp, prev, client, nreq,
          users, notifications, pushes, trig, nid, faults, ntrig, procs, app>>

(* ----------------------------- bounds ---------------------------------- *)

\* The clock runs over 0..MaxClock.
MaxClock == 2
\* Store writes in one behaviour.
MaxWrites == 2
\* Sync requests in one behaviour.
MaxRequests == 2

\* Entities of a collection filled in bulk.
MaxBulk == 101

\* Entity identifiers, in the store's natural (insertion) order.
IdSeq == <<"a", "b">>
Ids == {IdSeq[i] : i \in DOMAIN IdSeq}

\* Identifiers of the entities of a store filled in bulk; in natural order
\* they come after the ids of IdSeq.
BulkIds == [i \in 1..MaxBulk |-> ToString(i)]
BulkIndex == [s \in {BulkIds[i] : i \in 1..MaxBulk} |-> CHOOSE i \in 1..MaxBulk : BulkIds[i] = s]

IdIndex(id) ==
    IF id \in Ids THEN CHOOSE i \in DOMAIN IdSeq : IdSeq[i] = id
    ELSE Len(IdSeq) + BulkIndex[id]

Users == {"u1", "u2"}

(* ------------------------- optional values ----------------------------- *)

\* Python's None for an Optional[datetime] / a nullable field: the empty set;
\* a present value v is {v}.
None == {}
Some(v) == {v}
The(o) == CHOOSE v \in o : TRUE

(* ---------------------------- the store -------------------------------- *)

Collections ==
    {"products", "categories", "orders", "car_brands", "car_models", "product_brands"}

\* name and sort_order are fixed per id: the sort keys of the reference data.
\* Category names run with the natural order of the ids (against their
\* sort_order); the names of every other type run against it.
NameRank(c, id) ==
    IF c = "categories" THEN IdIndex(id) ELSE Len(IdSeq) + MaxBulk + 1 - IdIndex(id)
SortOrderOf(id) == Len(IdSeq) - IdIndex(id)

\* The references a writer may give a new product (its brand and its list of
\* compatible car models) or a new car model (its car brand).
NoRefs == [product_brand_id |-> None, car_model_ids |-> <<>>, brand_id |-> None]
RefChoices(c) ==
    CASE c = "products" ->
           {NoRefs,
            [product_brand_id |-> Some(IdSeq[1]), car_model_ids |-> IdSeq,
             brand_id |-> None]}
      [] c = "car_models" ->
           {[product_brand_id |-> None, car_model_ids |-> <<>>,
             brand_id |-> Some(IdSeq[1])]}
      [] OTHER -> {NoRefs}

\* The user a writer may give a new order; no other entity has an owner.
OwnerChoices(c) == IF c = "orders" THEN Users ELSE {"u1"}

\* A document as a writer inserts it at clock t.
NewDoc(c, id, t, u, ref) ==
    [_id |-> id, updated_at |-> t, created_at |-> t, deleted_at |-> None,
     user_id |-> IF c = "orders" THEN Some(u) ELSE None,
     name |-> NameRank(c, id), sort_order |-> SortOrderOf(id),
     product_brand_id |-> ref.product_brand_id,
     car_model_ids |-> ref.car_model_ids,
     brand_id |-> ref.brand_id]

Doc(c, id) == CHOOSE d \in db[c] : d._id = id
Has(c, id) == \E d \in db[c] : d._id = id
Live(c) == {d \in db[c] : d.deleted_at = None}

(* ------------------------ cursors: sort, to_list ----------------------- *)

Min(a, b) == IF a <= b THEN a ELSE b

\* Lexicographic order on integer tuples of one length.
RECURSIVE LexLess(_, _)
LexLess(k1, k2) ==
    IF k1 = <<>> THEN FALSE
    ELSE IF Head(k1) # Head(k2) THEN Head(k1) < Head(k2)
    ELSE LexLess(Tail(k1), Tail(k2))

\* The documents of S as a sequence ordered by the key K[d]; documents with
\* equal keys keep the store's natural order.
SortDocs(S, K) ==
    LET Before(x, y) == LexLess(K[x] \o <<IdIndex(x._id)>>, K[y] \o <<IdIndex(y._id)>>)
        Rank(x) == Cardinality({y \in S : Before(y, x)})
    IN  [i \in 1..Cardinality(S) |-> CHOOSE x \in S : Rank(x) = i - 1]

\* find() without a sort: the store's natural order.
Natural(S) == SortDocs(S, [d \in S |-> <<>>])

\* cursor.to_list(n): at most the first n documents (and the $limit stage).
ToList(seq, n) == SubSeq(seq, 1, Min(n, Len(seq)))

Range(seq) == {seq[i] : i \in DOMAIN seq}
IdsOf(seq) == {seq[i]._id : i \in DOMAIN seq}
MapIds(seq) == [i \in DOMAIN seq |-> seq[i]._id]

(* --------------------- request strings and the codec ------------------- *)

\* The values of the last_sync query parameter: absent (Python None), the
\* empty string, a string that is no ISO-8601 instant, and an ISO-8601
\* instant t written with a "Z" designator or a "+00:00" offset.
NoneStr == [kind |-> "none", t |-> 0, sfx |-> ""]
EmptyStr == [kind |-> "empty", t |-> 0, sfx |-> ""]
GarbageStr == [kind |-> "garbage", t |-> 0, sfx |-> ""]
IsoStr(t, sfx) == [kind |-> "iso", t |-> t, sfx |-> sfx]

\* str.replace('Z', '+00:00')
ReplaceZ(ts) == IF ts.kind = "iso" /\ ts.sfx = "Z" THEN IsoStr(ts.t, "+00:00") ELSE ts

\* datetime.fromisoformat: the instant, or None where Python raises ValueError.
FromIsoFormat(ts) == IF ts.kind = "iso" /\ ts.sfx = "+00:00" THEN Some(ts.t) ELSE None

\* parse_timestamp
parse_timestamp(ts) ==
    IF ts.kind = "none" \/ ts.kind = "empty" THEN None
    ELSE FromIsoFormat(ReplaceZ(ts))

\* datetime.now(timezone.utc).isoformat()
IsoFormat(t) == IsoStr(t, "+00:00")

\* is_delta hard-wired to true.
is_delta_always(last_sync) == TRUE

\* `last_sync is not None`
is_delta_of(last_sync) == last_sync.kind # "none"

(* ----------------------------- the queries ----------------------------- *)

\* `if user_id:` : None and the empty string add no filter.
Truthy(u) == u # None /\ The(u) # ""

\* ChangeSet with the checkpoint compared inclusively ($gte for $gt).
ChangeSetInclusive(c, dt, user) ==
    {d \in db[c] :
        /\ d.deleted_at = None
        /\ (Truthy(user) => d.user_id = user)
        /\ (dt # None => d.updated_at >= The(dt))}

\* ChangeSet filtering on a recency window of the server clock in place of
\* the caller's checkpoint.
ChangeSetRecent(c, dt, user) ==
    {d \in db[c] :
        /\ d.deleted_at = None
        /\ (Truthy(user) => d.user_id = user)
        /\ (dt # None => d.updated_at > now - 1)}

\* The change-set filter: {"deleted_at": None}, plus user_id when given, plus
\* updated_at > last_sync_dt when a checkpoint was parsed.
ChangeSet(c, dt, user) ==
    {d \in db[c] :
        /\ d.deleted_at = None
        /\ (Truthy(user) => d.user_id = user)
        /\ (dt # None => d.updated_at > The(dt))}

\* Tombstones with the checkpoint compared inclusively ($gte for $gt).
TombstonesInclusive(c, dt, user) ==
    {d \in db[c] :
        /\ d.deleted_at # None
        /\ The(d.deleted_at) >= The(dt)
        /\ (Truthy(user) => d.user_id = user)}

\* The tombstone filter: {"deleted_at": {"$gt": last_sync_dt}}, plus user_id
\* when given. A null deleted_at never compares greater than a date.
Tombstones(c, dt, user) ==
    {d \in db[c] :
        /\ d.deleted_at # None
        /\ The(d.deleted_at) > The(dt)
        /\ (Truthy(user) => d.user_id = user)}

\* $lookup on _id followed by $unwind with preserveNullAndEmptyArrays: the
\* matching document of collection c, or None. Soft-deleted documents match.
Lookup(c, key) ==
    IF key # None /\ Has(c, The(key)) THEN Some(Doc(c, The(key))) ELSE None

FieldOf(o, f) == IF o = None THEN None ELSE Some(The(o)[f])

\* The enrichment with the car-model fields taken from the last id of the
\* product's car model list.
EnrichFromLastModel(d) ==
    LET brand == Lookup("product_brands", d.product_brand_id)
        last == IF Len(d.car_model_ids) > 0
                THEN Some(d.car_model_ids[Len(d.car_model_ids)]) ELSE None
        model == Lookup("car_models", last)
        carbrand == Lookup("car_brands", IF model = None THEN None ELSE The(model).brand_id)
    IN  [_id |-> d._id, updated_at |-> d.updated_at, created_at |-> d.created_at,
         deleted_at |-> d.deleted_at, user_id |-> d.user_id, name |-> d.name,
         sort_order |-> d.sort_order, product_brand_id |-> d.product_brand_id,
         car_model_ids |-> d.car_model_ids, brand_id |-> d.brand_id,
         product_brand_name |-> FieldOf(brand, "name"),
         compatible_car_model |-> FieldOf(model, "name"),
         compatible_car_models_count |-> Len(d.car_model_ids),
         compatible_car_brand |-> FieldOf(carbrand, "name")]

\* The enrichment stages of the products pipeline ($lookup, $unwind,
\* $addFields, $project) on one product.
Enrich(d) ==
    LET brand == Lookup("product_brands", d.product_brand_id)
        first == IF Len(d.car_model_ids) > 0 THEN Some(d.car_model_ids[1]) ELSE None
        model == Lookup("car_models", first)
        carbrand == Lookup("car_brands", IF model = None THEN None ELSE The(model).brand_id)
    IN  [_id |-> d._id, updated_at |-> d.updated_at, created_at |-> d.created_at,
         deleted_at |-> d.deleted_at, user_id |-> d.user_id, name |-> d.name,
         sort_order |-> d.sort_order, product_brand_id |-> d.product_brand_id,
         car_model_ids |-> d.car_model_ids, brand_id |-> d.brand_id,
         product_brand_name |-> FieldOf(brand, "name"),
         compatible_car_model |-> FieldOf(model, "name"),
         compatible_car_models_count |-> Len(d.car_model_ids),
         compatible_car_brand |-> FieldOf(carbrand, "name")]

\* The per-entity endpoints: the collection each reads.
CollOf(ep) ==
    CASE ep = "products" -> "products"
      [] ep = "categories" -> "categories"
      [] ep = "orders" -> "orders"
      [] ep = "car-brands" -> "car_brands"
      [] ep = "car-models" -> "car_models"
      [] ep = "product-brands" -> "product_brands"

EntityEndpoints ==
    {"products", "categories", "orders", "car-brands", "car-models", "product-brands"}

\* The products sync with the cap of the other change-set reads in place of
\* limit.
ItemsCapFixed(ep, limit) ==
    CASE ep = "products" -> 1000
      [] ep = "categories" -> 1000
      [] ep = "orders" -> 1000
      [] ep = "car-brands" -> 500
      [] ep = "car-models" -> 1000
      [] ep = "product-brands" -> 500

\* to_list(n) of each per-entity change-set query; the products pipeline
\* ends in $limit: limit and is read with to_list(limit).
ItemsCap(ep, limit) ==
    CASE ep = "products" -> limit
      [] ep = "categories" -> 1000
      [] ep = "orders" -> 1000
      [] ep = "car-brands" -> 500
      [] ep = "car-models" -> 1000
      [] ep = "product-brands" -> 500

\* The sorts with the products pipeline ordering oldest-updated first.
SortKeyOldestFirst(ep, d) ==
    CASE ep = "products" -> <<d.updated_at>>
      [] ep = "categories" -> <<d.sort_order, d.name>>
      [] ep = "orders" -> <<0 - d.created_at>>
      [] OTHER -> <<d.name>>

\* The sort of each per-entity change-set query, as the key of a document.
SortKey(ep, d) ==
    CASE ep = "products" -> <<0 - d.updated_at>>
      [] ep = "categories" -> <<d.sort_order, d.name>>
      [] ep = "orders" -> <<0 - d.created_at>>
      [] OTHER -> <<d.name>>

\* The first store read of a per-entity endpoint: the change set (enriched,
\* for products), sorted and capped.
ItemsQuery(ep, dt, user, limit) ==
    LET S == ChangeSet(CollOf(ep), dt, IF ep = "orders" THEN user ELSE None)
        E == IF ep = "products" THEN {Enrich(d) : d \in S} ELSE S
    IN  ToList(SortDocs(E, [d \in E |-> SortKey(ep, d)]), ItemsCap(ep, limit))

\* to_list(n) of each per-entity tombstone query.
TombstoneCap(ep) ==
    CASE ep = "products" -> 1000
      [] ep = "categories" -> 500
      [] ep = "orders" -> 500
      [] ep = "car-brands" -> 100
      [] ep = "car-models" -> 200
      [] ep = "product-brands" -> 100

\* The second store read of a per-entity endpoint: the ids soft-deleted after
\* the checkpoint (the handler skips it when no checkpoint was parsed).
TombstoneQuery(ep, dt, user) ==
    MapIds(ToList(Natural(Tombstones(CollOf(ep), dt, IF ep = "orders" THEN user ELSE None)),
                  TombstoneCap(ep)))

(* ------------------------- the combined endpoint ----------------------- *)

\* One piece of tables.split(","): a name, with or without surrounding
\* whitespace.
Tok(name) == [ws |-> FALSE, name |-> name]
Padded(name) == [ws |-> TRUE, name |-> name]

\* The piece used as it was split, untrimmed.
StripNothing(tok) == tok

\* str.strip()
Strip(tok) == [ws |-> FALSE, name |-> tok.name]

\* The keys of collection_map.
collection_map == {"products", "categories", "car_brands", "car_models", "product_brands"}

\* `table in collection_map`, for a piece as the loop holds it.
InCollectionMap(tok) == tok.ws = FALSE /\ tok.name \in collection_map

\* The tables parameter as its comma-separated pieces; <<>> is an absent
\* parameter and <<Tok("")>> the empty string, both falsy.
requested_tables(tables) ==
    IF tables = <<>> \/ tables = <<Tok("")>>
    THEN <<Tok("products"), Tok("categories"), Tok("car_brands"),
           Tok("car_models"), Tok("product_brands")>>
    ELSE tables

\* The loop of get_full_delta passes over unknown names without a store read:
\* the first index from i on whose stripped piece is in collection_map, or
\* Len + 1.
RECURSIVE NextTable(_, _)
NextTable(tabs, i) ==
    IF i > Len(tabs) THEN i
    ELSE IF InCollectionMap(Strip(tabs[i])) THEN i
    ELSE NextTable(tabs, i + 1)

\* coll.find(query).to_list(2000)
FullItemsQuery(c, dt) == ToList(Natural(ChangeSet(c, dt, None)), 2000)

\* coll.find({"deleted_at": {"$gt": last_sync_dt}}, {"_id": 1}).to_list(500)
FullTombstoneQuery(c, dt) == MapIds(ToList(Natural(Tombstones(c, dt, None)), 500))

EmptyData == [k \in {} |-> {}]
Entry(items, deleted_ids) == [items |-> items, deleted_ids |-> deleted_ids]
Put(data, k, v) == (k :> v) @@ data

(* ---------------------- requests, responses, client -------------------- *)

\* The endpoint and the parameters other than last_sync that the behaviour's
\* requests carry.
EntityCfg(ep, user, limit) == [ep |-> ep, user_id |-> user, limit |-> limit, tables |-> <<>>]
FullCfg(tables) == [ep |-> "full", user_id |-> None, limit |-> 0, tables |-> tables]

\* limit: int = Query(1000, le=5000): the value of an absent parameter, and
\* the validation that runs before the handler.
limit_of(p) == IF p = None THEN 1000 ELSE The(p)
ValidLimit(l) == l <= 5000

\* A products request by its limit parameter (None: not given).
PageCfg(p) ==
    [ep |-> "products", user_id |-> None, limit |-> limit_of(p), tables |-> <<>>,
     param |-> p]

LimitParams == {None, Some(0), Some(1), Some(5001)}

PageConfigs == {PageCfg(p) : p \in LimitParams}

Configs ==
    {EntityCfg(ep, None, 1000) : ep \in EntityEndpoints}
    \cup {EntityCfg("products", None, 1), EntityCfg("orders", Some("u1"), 1000)}
    \cup {FullCfg(t) : t \in
            {<<>>, <<Tok("")>>, <<Tok("categories"), Padded("bogus")>>,
             <<Padded("car_brands"), Tok("orders")>>, <<Tok("Products")>>}}

\* The collections a request of the configuration reads.
ReadColls(c) ==
    IF c.ep = "full"
    THEN {t.name : t \in {Strip(x) : x \in Range(requested_tables(c.tables))}}
         \cap collection_map
    ELSE IF c.ep = "products"
    THEN {"products", "product_brands", "car_models", "car_brands"}
    ELSE {CollOf(c.ep)}

LastSyncInputs ==
    {NoneStr, EmptyStr, GarbageStr}
    \cup {IsoStr(t, "Z") : t \in 0..MaxClock}

\* A paging caller of the products sync goes on while the last response held
\* no fewer than limit items, and sends the greatest updated_at among the
\* returned records as its next checkpoint.
PageItems(r) == r.data["products"].items
MorePages(r) == Len(PageItems(r)) > 0 /\ Len(PageItems(r)) >= cfg.limit
LatestReturned(r) ==
    CHOOSE t \in {PageItems(r)[i].updated_at : i \in DOMAIN PageItems(r)} :
        \A i \in DOMAIN PageItems(r) : PageItems(r)[i].updated_at <= t

\* The last_sync of the next request: a chaining client sends the server_time
\* of its last response (nothing on its first sync); a probing caller sends any
\* input, and then repeats its request.
NextLastSync ==
    IF mode = "page"
    THEN IF resp = None THEN LastSyncInputs
         ELSE IF MorePages(The(resp)) THEN {IsoFormat(LatestReturned(The(resp)))}
         ELSE {}
    ELSE IF mode = "chain" THEN {client.ckpt}
    ELSE IF resp # None THEN {The(resp).last_sync}
    ELSE LastSyncInputs

\* The collection the behaviour's writers work on: one that the requests read.
HotChoices(c) == IF ReadColls(c) = {} THEN {"products"} ELSE ReadColls(c)

Idle ==
    [pc |-> "idle", last_sync |-> NoneStr, dt |-> None, tabs |-> <<>>, idx |-> 0,
     items |-> <<>>, data |-> EmptyData, server_time |-> None, w0 |-> 0,
     tRead |-> None]

\* What the client does with a response: items are upserts, deleted_ids are
\* removals, server_time is the next checkpoint.
ClientApply(cl, r) ==
    [ckpt |-> r.server_time,
     replica |-> [c \in Collections |->
        IF c \in DOMAIN r.data
        THEN (cl.replica[c] \cup IdsOf(r.data[c].items)) \ Range(r.data[c].deleted_ids)
        ELSE cl.replica[c]]]

(* ------------------------------- Init ---------------------------------- *)

\* The notification service at rest: no user, no record, no trigger called.
\* A trigger's state: its call, where it stands, the users its find returned,
\* the loop index, the notification create_notification is working on, the
\* list it has built, the ids and pushes that preceded it, and the user_id
\* create_notification was called with.
NoCall ==
    [kind |-> "none", user_id |-> "", order_number |-> "", status |-> "",
     order_id |-> None, language |-> None, promotion_id |-> None, bundle_id |-> None,
     image_url |-> None, target_url |-> None, activity_type |-> "", extra_data |-> <<>>,
     via |-> "", texts |-> ""]
NoTrigger ==
    [call |-> NoCall, pc |-> "idle", recipients |-> <<>>, i |-> 0, cur |-> None,
     created |-> <<>>, base |-> 0, push0 |-> 0, to |-> ""]
\* The application process before it is started: no connection to the store,
\* nothing done yet; `log` lists the steps of the current run, `runs` and
\* `seeds` count the starts and the completed seedings so far.
AppDown ==
    [pc |-> "down", conn |-> FALSE, log |-> <<>>, runs |-> 0, seeds |-> 0,
     existing_brands |-> 0]

\* No broadcasts running side by side.
NoProcs == <<>>

NotifQuiet ==
    /\ users = <<>>
    /\ notifications = {}
    /\ pushes = <<>>
    /\ trig = NoTrigger
    /\ nid = 0
    /\ faults = 0
    /\ ntrig = 0
    /\ app = AppDown
    /\ procs = NoProcs

\* The store as the behaviour finds it: the collection the behaviour's writers
\* work on (hot) is empty, every other collection holds one entity, created
\* at clock 0.
SeedRefs(c) ==
    CASE c = "products" ->
           [product_brand_id |-> Some(IdSeq[1]), car_model_ids |-> IdSeq, brand_id |-> None]
      [] c = "car_models" ->
           [product_brand_id |-> None, car_model_ids |-> <<>>, brand_id |-> Some(IdSeq[1])]
      [] OTHER -> NoRefs

Seeded(h) ==
    [c \in Collections |->
        IF c = h THEN {} ELSE {NewDoc(c, IdSeq[1], 0, "u1", SeedRefs(c))}]

\* A writer works while no probe request is in flight; a chained sync races
\* with the writers; a paging caller starts on a store that is no longer
\* written.
WriterMayRun ==
    IF mode = "page" THEN nreq = 0 /\ req.pc = "idle"
    ELSE mode = "chain" \/ req.pc = "idle"

Init ==
    /\ cfg \in Configs
    /\ hot \in HotChoices(cfg)
    /\ db = Seeded(hot)
    /\ now = 0
    /\ wseq = 0
    /\ mode \in {"chain", "probe"}
    /\ req = Idle
    /\ resp = None
    /\ prev = None
    /\ client = [ckpt |-> NoneStr, replica |-> [c \in Collections |-> {}]]
    /\ nreq = 0
    /\ NotifQuiet

(* ------------------------- the clock and writers ----------------------- *)

Tick ==
    /\ now < MaxClock
    /\ now' = now + 1
    /\ UNCHANGED <<db, wseq, cfg, mode, hot, req, resp, prev, client, nreq>>
    /\ UNCHANGED notifVars

\* A writer inserts a new entity, stamped with the current clock.
Create(c, id, u, ref) ==
    /\ wseq < MaxWrites
    /\ WriterMayRun
    /\ c = hot
    /\ ~Has(c, id)
    /\ db' = [db EXCEPT ![c] = @ \cup {NewDoc(c, id, now, u, ref)}]
    /\ wseq' = wseq + 1
    /\ UNCHANGED <<now, cfg, mode, hot, req, resp, prev, client, nreq>>
    /\ UNCHANGED notifVars

\* A writer modifies a live entity: updated_at becomes the current clock.
Update(c, id) ==
    /\ wseq < MaxWrites
    /\ WriterMayRun
    /\ c = hot
    /\ Has(c, id)
    /\ Doc(c, id).deleted_at = None
    /\ db' = [db EXCEPT ![c] =
                (@ \ {Doc(c, id)}) \cup {[Doc(c, id) EXCEPT !.updated_at = now]}]
    /\ wseq' = wseq + 1
    /\ UNCHANGED <<now, cfg, mode, hot, req, resp, prev, client, nreq>>
    /\ UNCHANGED notifVars

\* A writer soft-deletes a live entity: deleted_at and updated_at both become
\* the current clock.
SoftDelete(c, id) ==
    /\ wseq < MaxWrites
    /\ WriterMayRun
    /\ c = hot
    /\ Has(c, id)
    /\ Doc(c, id).deleted_at = None
    /\ db' = [db EXCEPT ![c] =
                (@ \ {Doc(c, id)})
                \cup {[Doc(c, id) EXCEPT !.updated_at = now, !.deleted_at = Some(now)]}]
    /\ wseq' = wseq + 1
    /\ UNCHANGED <<now, cfg, mode, hot, req, resp, prev, client, nreq>>
    /\ UNCHANGED notifVars

(* --------------------------- the sync handlers ------------------------- *)

\* A request arrives: parse_timestamp runs, and get_full_delta builds its
\* result (server_time, is_delta) before its loop.
StartRequest(ls) ==
    /\ req.pc = "idle"
    /\ nreq < MaxRequests
    /\ cfg.ep = "products" => ValidLimit(cfg.limit)
    /\ nreq' = nreq + 1
    /\ LET tabs == IF cfg.ep = "full" THEN requested_tables(cfg.tables) ELSE <<>>
           first == NextTable(tabs, 1)
       IN  req' = [pc |-> IF cfg.ep = "full" /\ first > Len(tabs) THEN "respond" ELSE "query",
                   last_sync |-> ls, dt |-> parse_timestamp(ls), tabs |-> tabs,
                   idx |-> first, items |-> <<>>, data |-> EmptyData,
                   server_time |-> IF cfg.ep = "full" THEN Some(IsoFormat(now)) ELSE None,
                   w0 |-> wseq, tRead |-> None]
    /\ UNCHANGED <<db, now, wseq, cfg, mode, hot, resp, prev, client>>
    /\ UNCHANGED notifVars

\* A products request whose limit is above 5000 fails validation: the handler
\* does not run and no sync response is returned.
RejectRequest ==
    /\ req.pc = "idle"
    /\ nreq < MaxRequests
    /\ cfg.ep = "products"
    /\ ~ValidLimit(cfg.limit)
    /\ nreq' = nreq + 1
    /\ UNCHANGED <<db, now, wseq, cfg, mode, hot, req, resp, prev, client>>
    /\ UNCHANGED notifVars

\* The store rejects a pipeline whose $limit is not positive: the aggregate
\* raises and the error leaves the handler.
PipelineFails ==
    /\ req.pc = "query"
    /\ cfg.ep = "products"
    /\ cfg.limit <= 0
    /\ req' = [req EXCEPT !.pc = "raised"]
    /\ UNCHANGED <<db, now, wseq, cfg, mode, hot, resp, prev, client, nreq>>
    /\ UNCHANGED notifVars

\* Per-entity endpoint: the change-set read.
EntityQuery ==
    /\ req.pc = "query"
    /\ cfg.ep # "full"
    /\ cfg.ep = "products" => cfg.limit > 0
    /\ LET items == ItemsQuery(cfg.ep, req.dt, cfg.user_id, cfg.limit)
       IN  req' = [req EXCEPT
                     !.items = items,
                     !.data = Put(@, CollOf(cfg.ep), Entry(items, <<>>)),
                     !.tRead = Some(now),
                     !.pc = IF req.dt # None THEN "tombstone" ELSE "respond"]
    /\ UNCHANGED <<db, now, wseq, cfg, mode, hot, resp, prev, client, nreq>>
    /\ UNCHANGED notifVars

\* A tombstone read that purges the tombstones it has returned.
EntityTombstonePurging ==
    /\ req.pc = "tombstone"
    /\ cfg.ep # "full"
    /\ req' = [req EXCEPT
                  !.data = Put(@, CollOf(cfg.ep),
                               Entry(req.items, TombstoneQuery(cfg.ep, req.dt, cfg.user_id))),
                  !.tRead = Some(now),
                  !.pc = "respond"]
    /\ db' = [db EXCEPT ![CollOf(cfg.ep)] = {d \in @ : d.deleted_at = None}]
    /\ UNCHANGED <<now, wseq, cfg, mode, hot, resp, prev, client, nreq>>
    /\ UNCHANGED notifVars

\* Per-entity endpoint: the tombstone read, made when a checkpoint was parsed.
EntityTombstone ==
    /\ req.pc = "tombstone"
    /\ cfg.ep # "full"
    /\ req' = [req EXCEPT
                  !.data = Put(@, CollOf(cfg.ep),
                               Entry(req.items, TombstoneQuery(cfg.ep, req.dt, cfg.user_id))),
                  !.tRead = Some(now),
                  !.pc = "respond"]
    /\ UNCHANGED <<db, now, wseq, cfg, mode, hot, resp, prev, client, nreq>>
    /\ UNCHANGED notifVars

\* Combined endpoint: the change-set read of the current table.
FullQuery ==
    /\ req.pc = "query"
    /\ cfg.ep = "full"
    /\ LET table == Strip(req.tabs[req.idx]).name
           items == FullItemsQuery(table, req.dt)
           next == NextTable(req.tabs, req.idx + 1)
       IN  req' = [req EXCEPT
                     !.items = IF req.dt # None THEN items ELSE <<>>,
                     !.data = IF req.dt # None THEN @ ELSE Put(@, table, Entry(items, <<>>)),
                     !.tRead = Some(now),
                     !.idx = IF req.dt # None THEN @ ELSE next,
                     !.pc = IF req.dt # None THEN "tombstone"
                            ELSE IF next > Len(req.tabs) THEN "respond" ELSE "query"]
    /\ UNCHANGED <<db, now, wseq, cfg, mode, hot, resp, prev, client, nreq>>
    /\ UNCHANGED notifVars

\* Combined endpoint: the tombstone read of the current table, which then
\* gets its entry in data.
FullTombstone ==
    /\ req.pc = "tombstone"
    /\ cfg.ep = "full"
    /\ LET table == Strip(req.tabs[req.idx]).name
           next == NextTable(req.tabs, req.idx + 1)
       IN  req' = [req EXCEPT
                     !.items = <<>>,
                     !.data = Put(@, table, Entry(req.items, FullTombstoneQuery(table, req.dt))),
                     !.tRead = Some(now),
                     !.idx = next,
                     !.pc = IF next > Len(req.tabs) THEN "respond" ELSE "query"]
    /\ UNCHANGED <<db, now, wseq, cfg, mode, hot, resp, prev, client, nreq>>
    /\ UNCHANGED notifVars

\* The response leaves the handler: a per-entity endpoint reads the clock for
\* server_time here, the combined endpoint returns the result it built.
Respond ==
    /\ req.pc = "respond"
    /\ LET r == [last_sync |-> req.last_sync,
                 data |-> req.data,
                 server_time |-> IF cfg.ep = "full" THEN The(req.server_time)
                                 ELSE IsoFormat(now),
                 is_delta |-> is_delta_of(req.last_sync),
                 total |-> IF cfg.ep = "products" THEN Some(Len(req.items)) ELSE None,
                 w0 |-> req.w0, w1 |-> wseq, tRead |-> req.tRead]
       IN  /\ resp' = Some(r)
           /\ prev' = IF mode = "probe" THEN resp
                      ELSE IF mode = "page" THEN (IF prev = None THEN Some(r) ELSE prev)
                      ELSE None
           /\ client' = IF mode \in {"chain", "page"} THEN ClientApply(client, r)
                        ELSE client
    /\ req' = Idle
    /\ UNCHANGED <<db, now, wseq, cfg, mode, hot, nreq>>
    /\ UNCHANGED notifVars

\* A store read of the handler raises: get_full_delta and the per-entity
\* handlers await their reads with no try/except around them, so the error
\* leaves the handler and no response is built.
ReadFails ==
    /\ req.pc \in {"query", "tombstone"}
    /\ req' = [req EXCEPT !.pc = "raised"]
    /\ UNCHANGED <<db, now, wseq, cfg, mode, hot, resp, prev, client, nreq>>
    /\ UNCHANGED notifVars

\* The framework answers a request whose handler raised with an error status;
\* nothing of what the handler had built is returned.
Abort ==
    /\ req.pc = "raised"
    /\ req' = Idle
    /\ UNCHANGED <<db, now, wseq, cfg, mode, hot, resp, prev, client, nreq>>
    /\ UNCHANGED notifVars

Next ==
    \/ Tick
    \/ \E c \in Collections, id \in Ids :
          \E u \in OwnerChoices(c), ref \in RefChoices(c) : Create(c, id, u, ref)
    \/ \E c \in Collections, id \in Ids : Update(c, id)
    \/ \E c \in Collections, id \in Ids : SoftDelete(c, id)
    \/ \E ls \in NextLastSync : StartRequest(ls)
    \/ EntityQuery
    \/ EntityTombstone
    \/ FullQuery
    \/ FullTombstone
    \/ Respond

Spec == Init /\ [][Next]_vars

(* -------------- the combined endpoint on a store that may fail --------- *)

\* Requests to the combined endpoint whose store reads may raise.
InitErr == Init /\ cfg.ep = "full" /\ mode = "chain"

NextErr ==
    \/ Tick
    \/ \E c \in Collections, id \in Ids :
          \E u \in OwnerChoices(c), ref \in RefChoices(c) : Create(c, id, u, ref)
    \/ \E c \in Collections, id \in Ids : Update(c, id)
    \/ \E c \in Collections, id \in Ids : SoftDelete(c, id)
    \/ \E ls \in NextLastSync : StartRequest(ls)
    \/ FullQuery
    \/ FullTombstone
    \/ Respond
    \/ ReadFails
    \/ Abort

SpecErr == InitErr /\ [][NextErr]_vars

(* ------------------------------ properties ----------------------------- *)

\* The instant an ISO-8601 string denotes; None for any other input.
InstantOf(ls) == IF ls.kind = "iso" THEN Some(ls.t) ELSE None

\* A response has been returned and the store has not been written since its
\* request arrived.
Fresh == resp # None /\ The(resp).w0 = wseq

\* A document reduced to what a client reconciles on.
Stamp(d) == <<d._id, d.updated_at>>
Stamps(seq) == {Stamp(seq[i]) : i \in DOMAIN seq}

\* The entities of collection c a caller with the configured user filter is
\* entitled to.
Visible(c) == {d \in db[c] : Truthy(cfg.user_id) => d.user_id = cfg.user_id}

WantItems(c, T) ==
    {d \in Visible(c) : d.deleted_at = None /\ (T # None => d.updated_at > The(T))}
WantDeleted(c, T) ==
    IF T = None THEN {}
    ELSE {d \in Visible(c) : d.deleted_at # None /\ The(d.deleted_at) > The(T)}

\* C1: on a store not written since the request arrived, a per-entity endpoint
\* returns as items exactly the live entities with updated_at > T (all live
\* entities when no checkpoint was parsed) and as deleted_ids exactly the ids
\* of the entities with deleted_at > T, when the numbers qualifying are within
\* the result cap and the tombstone ceiling.
C1_SingleSyncExact ==
    (Fresh /\ cfg.ep # "full" /\ ~Truthy(cfg.user_id)) =>
        LET r == The(resp)
            c == CollOf(cfg.ep)
            T == InstantOf(r.last_sync)
        IN  (/\ Cardinality(WantItems(c, T)) <= ItemsCap(cfg.ep, cfg.limit)
             /\ Cardinality(WantDeleted(c, T)) <= TombstoneCap(cfg.ep))
            => /\ Stamps(r.data[c].items) = {Stamp(d) : d \in WantItems(c, T)}
               /\ T # None =>
                    Range(r.data[c].deleted_ids) = {d._id : d \in WantDeleted(c, T)}

\* C1 witness: a per-entity response on an unwritten store that returns an
\* entity updated after the checkpoint and leaves out a live entity updated
\* exactly at the checkpoint.
C1_Witness ==
    /\ Fresh /\ cfg.ep # "full" /\ ~Truthy(cfg.user_id)
    /\ InstantOf(The(resp).last_sync) # None
    /\ The(resp).data[CollOf(cfg.ep)].items # <<>>
    /\ \E d \in Live(CollOf(cfg.ep)) :
          /\ d.updated_at = The(InstantOf(The(resp).last_sync))
          /\ d._id \notin IdsOf(The(resp).data[CollOf(cfg.ep)].items)

\* C2: a client that chains syncs through server_time holds exactly the
\* store's live entities of the synced types after a sync during which (and
\* since which) no write happened.
C2_NoWriteMissed ==
    (mode = "chain" /\ Fresh /\ cfg.limit # 1) =>
        \A c \in DOMAIN The(resp).data :
            client.replica[c] = {d._id : d \in {x \in Visible(c) : x.deleted_at = None}}

\* C3: the server_time of a response is no earlier than the clock at the
\* request's final store read.
C3_ServerTimeAfterFinalRead ==
    (resp # None /\ The(resp).tRead # None) =>
        The(resp).server_time.t >= The(The(resp).tRead)

\* C4: the server_time of a response is no earlier than the updated_at of any
\* returned item nor the deleted_at of any entity named in deleted_ids.
C4_ServerTimeCoversReturned ==
    resp # None =>
        \A c \in DOMAIN The(resp).data :
            LET e == The(resp).data[c]
                S == The(resp).server_time.t
            IN  /\ \A i \in DOMAIN e.items : e.items[i].updated_at <= S
                /\ \A i \in DOMAIN e.deleted_ids :
                      The(Doc(c, e.deleted_ids[i]).deleted_at) <= S

\* C5: no id is both among the items and in deleted_ids of one response entry.
C5_ItemsTombstonesDisjoint ==
    resp # None =>
        \A c \in DOMAIN The(resp).data :
            IdsOf(The(resp).data[c].items) \cap Range(The(resp).data[c].deleted_ids) = {}

C7_RoundTripStrictlyAfter ==
    (mode = "chain" /\ resp # None /\ The(resp).last_sync.kind = "iso") =>
        \A c \in DOMAIN The(resp).data :
            LET e == The(resp).data[c]
                S == The(resp).last_sync.t
            IN  /\ \A i \in DOMAIN e.items : e.items[i].updated_at > S
                /\ \A i \in DOMAIN e.deleted_ids :
                      The(Doc(c, e.deleted_ids[i]).deleted_at) > S

\* C7 witness: a chained sync that returns an item while the store holds a
\* live entity updated exactly at its checkpoint, which it leaves out.
C7_Witness ==
    /\ mode = "chain" /\ resp # None /\ The(resp).last_sync.kind = "iso"
    /\ \E c \in DOMAIN The(resp).data :
          /\ The(resp).data[c].items # <<>>
          /\ \E d \in Live(c) :
                /\ d.updated_at = The(resp).last_sync.t
                /\ d._id \notin IdsOf(The(resp).data[c].items)

\* C8: a request without last_sync returns is_delta = false and no
\* deleted_ids, in every entry.
C8_NoCheckpointFullSync ==
    (resp # None /\ The(resp).last_sync.kind = "none") =>
        /\ The(resp).is_delta = FALSE
        /\ \A c \in DOMAIN The(resp).data : The(resp).data[c].deleted_ids = <<>>

\* C8 witness: a request without last_sync answered from a collection that
\* held a soft-deleted entity throughout.
C8_Witness ==
    /\ Fresh /\ The(resp).last_sync.kind = "none"
    /\ \E c \in DOMAIN The(resp).data : \E d \in db[c] : d.deleted_at # None

\* C9: a malformed or empty last_sync gives the response of a request without
\* last_sync: is_delta = false, no deleted_ids, and all live entities as items.
C9_MalformedAsAbsent ==
    (resp # None /\ The(resp).last_sync.kind \in {"empty", "garbage"}) =>
        /\ The(resp).is_delta = FALSE
        /\ \A c \in DOMAIN The(resp).data :
              /\ The(resp).data[c].deleted_ids = <<>>
              /\ (Fresh /\ cfg.limit # 1) =>
                    IdsOf(The(resp).data[c].items) = {d._id : d \in WantItems(c, None)}

\* The entity types the combined endpoint serves.
SupportedTables == {"products", "categories", "car_brands", "car_models", "product_brands"}

\* C10: when a tables list is given, the keys of data are exactly the
\* requested names, trimmed, that are supported types; an unknown name has no
\* entry, and every entry holds items and deleted_ids.
C10_DataKeysAreKnownRequested ==
    (resp # None /\ cfg.ep = "full" /\ cfg.tables # <<>> /\ cfg.tables # <<Tok("")>>) =>
        /\ DOMAIN The(resp).data = {t.name : t \in Range(cfg.tables)} \cap SupportedTables
        /\ \A k \in DOMAIN The(resp).data :
              DOMAIN The(resp).data[k] = {"items", "deleted_ids"}

\* C10 witness: a combined response for a list holding a padded supported name
\* and an unsupported one, with an entry for the first only.
C10_Witness ==
    /\ resp # None /\ cfg.ep = "full"
    /\ \E i \in DOMAIN cfg.tables : cfg.tables[i].ws /\ cfg.tables[i].name \in SupportedTables
    /\ \E i \in DOMAIN cfg.tables : cfg.tables[i].name \notin SupportedTables
    /\ The(resp).data # EmptyData

(* -------------------- the products sync, read in pages ----------------- *)

\* A caller pages through the products sync on a store that writers filled
\* before its first request.
InitPage ==
    /\ cfg \in PageConfigs
    /\ hot = "products"
    /\ db = Seeded(hot)
    /\ now = 0
    /\ wseq = 0
    /\ mode = "page"
    /\ req = Idle
    /\ resp = None
    /\ prev = None
    /\ client = [ckpt |-> NoneStr, replica |-> [c \in Collections |-> {}]]
    /\ nreq = 0
    /\ NotifQuiet

NextPage ==
    \/ Tick
    \/ \E c \in Collections, id \in Ids :
          \E u \in OwnerChoices(c), ref \in RefChoices(c) : Create(c, id, u, ref)
    \/ \E c \in Collections, id \in Ids : Update(c, id)
    \/ \E c \in Collections, id \in Ids : SoftDelete(c, id)
    \/ \E ls \in NextLastSync : StartRequest(ls)
    \/ RejectRequest
    \/ EntityQuery
    \/ EntityTombstone
    \/ PipelineFails
    \/ Abort
    \/ Respond

SpecPage == InitPage /\ [][NextPage]_vars

(* ------------------ requests against a store filled in bulk ----------- *)

\* The store after a bulk removal: the hot collection holds n entities, all
\* created at clock 0 and soft-deleted at clock 1.
BulkStore(h, n) ==
    [c \in Collections |->
        IF c = h
        THEN {[NewDoc(c, BulkIds[i], 0, "u1", NoRefs)
                 EXCEPT !.updated_at = 1, !.deleted_at = Some(1)] : i \in 1..n}
        ELSE Seeded(h)[c]]

BulkConfigs ==
    {EntityCfg("car-brands", None, 1000), EntityCfg("product-brands", None, 1000),
     FullCfg(<<Tok("car_brands"), Tok("product_brands")>>)}

BulkSizes == {MaxBulk - 1, MaxBulk}

InitBulk ==
    /\ cfg \in BulkConfigs
    /\ hot \in HotChoices(cfg)
    /\ \E n \in BulkSizes : db = BulkStore(hot, n)
    /\ now = 1
    /\ wseq = 0
    /\ mode = "probe"
    /\ req = Idle
    /\ resp = None
    /\ prev = None
    /\ client = [ckpt |-> NoneStr, replica |-> [c \in Collections |-> {}]]
    /\ nreq = 0
    /\ NotifQuiet

NextBulk ==
    \/ \E ls \in NextLastSync : StartRequest(ls)
    \/ EntityQuery
    \/ EntityTombstone
    \/ FullQuery
    \/ FullTombstone
    \/ Respond

SpecBulk == InitBulk /\ [][NextBulk]_vars

\* C11: in the combined endpoint a store error while querying one requested
\* type is isolated: the error does not leave the handler, and a request whose
\* read of one type failed still ends in a response.
C11_StoreErrorIsolated == req.pc # "raised"

\* The tombstone ceiling of each entity type: 1000 for orders and products,
\* 500 for categories, 200 for car models, 100 for car brands and product
\* brands.
TombstoneCeiling(c) ==
    CASE c \in {"orders", "products"} -> 1000
      [] c = "categories" -> 500
      [] c = "car_models" -> 200
      [] c \in {"car_brands", "product_brands"} -> 100

\* C12: the deleted_ids a sync returns for an entity type never hold more ids
\* than that type's tombstone ceiling, through a per-entity endpoint and
\* through the combined endpoint alike.
C12_DeletedIdsWithinCeiling ==
    resp # None =>
        \A c \in DOMAIN The(resp).data :
            Len(The(resp).data[c].deleted_ids) <= TombstoneCeiling(c)

\* C13: the products sync never returns more than limit items, limit being
\* 1000 when not given; a request with a limit above 5000 is not accepted, so
\* no response holds more than 5000 items; total is the number of items
\* returned.
C13_ProductsWithinLimit ==
    LET lim == IF cfg.param = None THEN 1000 ELSE The(cfg.param)
    IN  /\ lim > 5000 => resp = None
        /\ resp # None =>
              /\ Len(PageItems(The(resp))) <= lim
              /\ Len(PageItems(The(resp))) <= 5000
              /\ The(resp).total = Some(Len(PageItems(The(resp))))

\* C13 witness: a response cut to limit = 1 while two live products qualify.
C13_Witness ==
    /\ resp # None
    /\ cfg.param = Some(1)
    /\ Len(PageItems(The(resp))) = 1
    /\ The(resp).total = Some(1)
    /\ Cardinality(ChangeSet("products", parse_timestamp(The(resp).last_sync), None)) = 2

\* C14: when more products qualify than limit, a caller that re-queries with
\* the greatest updated_at among the returned records, until a response
\* holds fewer than limit items, has then received every product that
\* qualified for its first request (the store is not written meanwhile).
\* Stated for stores in which no two products share an updated_at.
C14_PagingDeliversAll ==
    (/\ prev # None /\ resp # None /\ req.pc = "idle"
     /\ ~MorePages(The(resp))
     /\ \A d1, d2 \in db["products"] : d1.updated_at = d2.updated_at => d1 = d2
     /\ Cardinality(ChangeSet("products", parse_timestamp(The(prev).last_sync), None))
           > cfg.limit) =>
        {d._id : d \in ChangeSet("products", parse_timestamp(The(prev).last_sync), None)}
            \subseteq client.replica["products"]

(* ======================= the notification service ====================== *)

\* Users in db.users.
NumUsers == 2
\* Triggers called in one behaviour.
MaxTriggers == 1
\* Failures of the store's insert or of the live push in one behaviour.
MaxFaults == 1
MaxRuns == 3

(* ------------------------------- users --------------------------------- *)

\* What a user document holds besides its _id: role, deleted_at, and
\* preferred_language (None: the key is not stored).
UserKinds ==
    {[role |-> "customer", deleted_at |-> None, preferred_language |-> None],
     [role |-> "customer", deleted_at |-> None, preferred_language |-> Some("en")],
     [role |-> "admin", deleted_at |-> None, preferred_language |-> Some("ar")],
     [role |-> "owner", deleted_at |-> None, preferred_language |-> Some("fr")],
     [role |-> "partner", deleted_at |-> Some(0), preferred_language |-> Some("en")],
     [role |-> "partner", deleted_at |-> None, preferred_language |-> None]}

UserId(i) == "u" \o ToString(i)

UserDoc(i, k) ==
    [_id |-> UserId(i), role |-> k.role, deleted_at |-> k.deleted_at,
     preferred_language |-> k.preferred_language]

\* db.users, in natural order.
UserStores == {[i \in 1..NumUsers |-> UserDoc(i, f[i])] : f \in [1..NumUsers -> UserKinds]}

\* The elements of a sequence that satisfy a filter, in order.
RECURSIVE SelectUsers(_, _)
SelectUsers(seq, roles) ==
    IF seq = <<>> THEN <<>>
    ELSE IF Head(seq).deleted_at = None /\ Head(seq).role \in roles
         THEN <<Head(seq)>> \o SelectUsers(Tail(seq), roles)
         ELSE SelectUsers(Tail(seq), roles)

AllRoles == {"customer", "admin", "owner", "partner"}
admin_roles == {"owner", "partner", "admin"}

\* db.users.find({"deleted_at": None}).to_list(10000)
all_users == ToList(SelectUsers(users, AllRoles), 10000)

\* db.users.find({"role": {"$in": admin_roles}, "deleted_at": None}).to_list(1000)
admin_users == ToList(SelectUsers(users, admin_roles), 1000)

(* ------------------------------- texts --------------------------------- *)

\* A title or message: a template of ORDER_STATUS_MESSAGES or title_templates
\* (kind, key) in a language, rendered with an order number, or a text the
\* caller passed (kind "arg", key the parameter's name, arg its content).
Text(kind, key, lang, arg) == [kind |-> kind, key |-> key, lang |-> lang, arg |-> arg]

\* The statuses that have an entry in ORDER_STATUS_MESSAGES, and its "type".
KnownStatuses ==
    {"pending", "confirmed", "preparing", "shipped", "out_for_delivery", "delivered",
     "cancelled", "completed"}

StatusType(status) ==
    CASE status \in {"delivered", "completed"} -> "success"
      [] status = "cancelled" -> "warning"
      [] OTHER -> "info"

\* status.replace('_', ' ')
Humanize(status) ==
    CASE status = "refund_pending" -> "refund pending"
      [] status = "on_{hold}" -> "on {hold}"
      [] OTHER -> status

\* The strings that hold a replacement field of str.format other than
\* {order_number}.
HasField(str) == str \in {"on_{hold}", "on {hold}", "ORD-{1}"}

\* The placeholder of the templates of ORDER_STATUS_MESSAGES.
Placeholder == "{order_number}"

\* status_config: the entry of ORDER_STATUS_MESSAGES, whose "en" and "ar" are
\* templates holding {order_number}; or the fallback built for an unknown
\* status, whose "en" and "ar" are f-strings that already hold the order
\* number and the humanized status. Its keys are "en", "ar" and "type".
status_config(status, order_number) ==
    IF status \in KnownStatuses
    THEN [en |-> Text("status", status, "en", Placeholder),
          ar |-> Text("status", status, "ar", Placeholder),
          type |-> Text("literal", StatusType(status), "", "")]
    ELSE [en |-> Text("fallback", Humanize(status), "en", order_number),
          ar |-> Text("fallback", Humanize(status), "ar", order_number),
          type |-> Text("literal", "info", "", "")]

\* str.format(order_number=...) raises on a replacement field it has no
\* argument for: such a field can only come from the status or the order
\* number that the fallback f-string already holds.
FormatRaises(text) ==
    text.kind = "fallback" /\ (HasField(text.key) \/ HasField(text.arg))

\* str.format that leaves the template as it is.
FormatSkipped(text, order_number) == text

\* str.format(order_number=order_number), where it does not raise.
Format(text, order_number) ==
    IF text.arg = Placeholder THEN [text EXCEPT !.arg = order_number] ELSE text

\* dict.get(language, d["en"])
GetOrEn(d, language) == IF language \in DOMAIN d THEN d[language] ELSE d["en"]

TitledStatuses ==
    {"delivered", "completed", "cancelled", "shipped", "preparing", "out_for_delivery"}

\* title_templates.get(status, {"en": "Order Update", "ar": ...})
title_config(status) ==
    LET key == IF status \in TitledStatuses THEN status ELSE "Order Update"
    IN  [en |-> Text("title", key, "en", ""), ar |-> Text("title", key, "ar", "")]

\* user.get("preferred_language", "ar")
preferred_lang(user) ==
    IF user.preferred_language = None THEN "ar" ELSE The(user.preferred_language)

\* title_ar if preferred_lang == "ar" else title
Localized(user, en, ar) == IF preferred_lang(user) = "ar" THEN ar ELSE en

(* ----------------------------- trigger calls --------------------------- *)

\* create_order_status_notification(user_id, order_number, status, order_id,
\* language); a language of None is the parameter left at its default.
OrderCall(user_id, order_number, status, order_id, language) ==
    [NoCall EXCEPT !.kind = "order", !.user_id = user_id, !.order_number = order_number,
                   !.status = status, !.order_id = order_id, !.language = language]

\* create_promotional_notification(title, title_ar, message, message_ar,
\* image_url, promotion_id, bundle_id, target_url)
PromoCall(image_url, promotion_id, bundle_id, target_url) ==
    [NoCall EXCEPT !.kind = "promo", !.image_url = image_url,
                   !.promotion_id = promotion_id, !.bundle_id = bundle_id,
                   !.target_url = target_url]

\* create_admin_activity_notification(activity_type, activity_title_en,
\* activity_title_ar, activity_message_en, activity_message_ar, extra_data)
AdminCall(activity_type, extra_data) ==
    [NoCall EXCEPT !.kind = "admin", !.activity_type = activity_type,
                   !.extra_data = extra_data]

\* The convenience triggers: each builds its texts and its extra_data and
\* returns the result of one create_admin_activity_notification; via names the
\* convenience trigger that was called.
notify_admins_new_user(user_email) ==
    [AdminCall("new_user", [user_email |-> user_email]) EXCEPT !.via = "new_user"]

notify_admins_product_change(product_id, action) ==
    [AdminCall("product_" \o action, [product_id |-> product_id, action |-> action])
        EXCEPT !.via = "product_change"]

notify_admins_order_cancelled(order_number, order_id, cancelled_by) ==
    [AdminCall("order_cancelled",
               [order_id |-> order_id, order_number |-> order_number,
                cancelled_by |-> cancelled_by])
        EXCEPT !.via = "order_cancelled"]

ConvenienceInputs ==
    {notify_admins_new_user("x@y")}
    \cup {notify_admins_product_change("p1", a) : a \in {"created", "updated", "deleted"}}
    \cup {notify_admins_order_cancelled("ORD-1", "o1", "customer")}

\* The languages a caller passes, and the statuses: the eight of
\* ORDER_STATUS_MESSAGES and three others.
LanguageInputs == {None, Some("en"), Some("ar"), Some("fr"), Some("type")}
StatusInputs == KnownStatuses \cup {"refund_pending", "lost", "on_{hold}"}

\* An extra_data whose keys are fields of the notification itself.
ClashingExtra ==
    [user_id |-> "u9", read |-> TRUE, type |-> "info", notification_category |-> "order"]

TriggerInputs ==
    {OrderCall("u1", "ORD-1", st, Some("o1"), lang) :
        st \in StatusInputs, lang \in LanguageInputs}
    \cup {OrderCall("u1", on, "refund_pending", None, None) : on \in {"ORD-1", "ORD-{1}"}}
    \cup {PromoCall(Some("img"), pid, None, None) : pid \in {None, Some("p1")}}
    \cup {AdminCall("new_user", x) : x \in {<<>>, [user_email |-> "x@y"], ClashingExtra}}
    \cup ConvenienceInputs

\* `language: str = "ar"`
language_of(p) == IF p = None THEN "ar" ELSE The(p)

(* ------------------------- notification documents ---------------------- *)

\* The dict create_notification builds: its seven fields, then
\* notification.update(extra_data) when extra_data is not empty.
NewNotification(id, user_id, title, message, notif_type, extra_data) ==
    extra_data @@
    [_id |-> id, user_id |-> user_id, title |-> title, message |-> message,
     type |-> notif_type, read |-> FALSE, created_at |-> now]

\* The message of create_order_status_notification fails to render.
OrderRenderRaises(call) ==
    FormatRaises(GetOrEn(status_config(call.status, call.order_number),
                         language_of(call.language)))

\* create_order_status_notification up to its call of create_notification.
OrderNotification(call, id) ==
    LET config == status_config(call.status, call.order_number)
        language == language_of(call.language)
    IN  NewNotification(id, call.user_id,
            GetOrEn(title_config(call.status), language),
            Format(GetOrEn(config, language), call.order_number),
            config.type.key,
            [order_id |-> call.order_id, order_number |-> call.order_number,
             status |-> call.status, notification_category |-> "order"])

\* extra_data["k"] = v `if v:`
IfTruthy(k, v) == IF Truthy(v) THEN k :> The(v) ELSE <<>>

\* The body of the loop of create_promotional_notification, for one user, up
\* to its call of create_notification.
PromoNotification(call, user, id) ==
    NewNotification(id, user._id,
        Localized(user, Text("arg", "title", "en", call.texts),
                        Text("arg", "title_ar", "ar", call.texts)),
        Localized(user, Text("arg", "message", "en", call.texts),
                        Text("arg", "message_ar", "ar", call.texts)),
        "promo",
        IfTruthy("bundle_id", call.bundle_id) @@ IfTruthy("promotion_id", call.promotion_id)
        @@ [notification_category |-> "promotion", image_url |-> call.image_url,
            target_url |-> call.target_url])

\* The body of the loop of create_admin_activity_notification, for one user.
AdminNotification(call, user, id) ==
    NewNotification(id, user._id,
        Localized(user, Text("arg", "activity_title_en", "en", call.texts),
                        Text("arg", "activity_title_ar", "ar", call.texts)),
        Localized(user, Text("arg", "activity_message_en", "en", call.texts),
                        Text("arg", "activity_message_ar", "ar", call.texts)),
        "admin",
        call.extra_data @@
        [notification_category |-> "admin_activity", activity_type |-> call.activity_type])

FanoutNotification(call, user, id) ==
    IF call.kind = "promo" THEN PromoNotification(call, user, id)
    ELSE AdminNotification(call, user, id)

\* serialize_doc: the document as the live push carries it, created_at as a
\* string.
SerializeDoc(n) == [n EXCEPT !["created_at"] = IsoFormat(@)]

(* --------------------------- the trigger steps ------------------------- *)

\* The sync side at rest while the notification service runs.
SyncQuiet ==
    /\ cfg = FullCfg(<<>>)
    /\ hot = "products"
    /\ db = Seeded(hot)
    /\ now = 0
    /\ wseq = 0
    /\ mode = "chain"
    /\ req = Idle
    /\ resp = None
    /\ prev = None
    /\ client = [ckpt |-> NoneStr, replica |-> [c \in Collections |-> {}]]
    /\ nreq = 0

\* A notification record that is in the store before the trigger is called:
\* an earlier order-status notification of u1, acknowledged since (read is set
\* by the read-acknowledgement operation, which is not part of this service).
OldRecord ==
    [_id |-> 0, user_id |-> "u1",
     title |-> Text("title", "shipped", "ar", ""),
     message |-> Text("status", "shipped", "ar", "ORD-0"),
     type |-> "info", read |-> TRUE, created_at |-> 0,
     order_id |-> Some("o0"), order_number |-> "ORD-0", status |-> "shipped",
     notification_category |-> "order"]

InitNotif ==
    /\ SyncQuiet
    /\ users \in UserStores
    /\ notifications \in {{}, {OldRecord}}
    /\ pushes = <<>>
    /\ trig = NoTrigger
    /\ nid = 0
    /\ faults = 0
    /\ ntrig = 0
    /\ app = AppDown
    /\ procs = NoProcs

\* What the loop does after one recipient's create_notification returned:
\* the next recipient's notification is built, or the trigger returns.
Advance(t) ==
    IF t.i < Len(t.recipients)
    THEN [t EXCEPT !.i = @ + 1, !.pc = "insert",
                   !.to = t.recipients[t.i + 1]._id,
                   !.cur = Some(FanoutNotification(t.call, t.recipients[t.i + 1], nid + 1))]
    ELSE [t EXCEPT !.pc = "returned", !.cur = None]

\* A trigger is called. The order-status trigger renders its message, which
\* may raise, builds its one notification (uuid4, datetime.now) and reaches
\* insert_one; the fan-out triggers reach their read of db.users.
StartTrigger(call) ==
    /\ trig.pc \in {"idle", "returned", "raised"}
    /\ ntrig < MaxTriggers
    /\ ntrig' = ntrig + 1
    /\ IF call.kind = "order" /\ OrderRenderRaises(call)
       THEN /\ trig' = [NoTrigger EXCEPT !.call = call, !.pc = "raised",
                           !.base = nid, !.push0 = Len(pushes)]
            /\ nid' = nid
       ELSE IF call.kind = "order"
       THEN /\ trig' = [NoTrigger EXCEPT !.call = call, !.pc = "insert",
                           !.base = nid, !.push0 = Len(pushes),
                           !.to = call.user_id,
                           !.cur = Some(OrderNotification(call, nid + 1))]
            /\ nid' = nid + 1
       ELSE /\ trig' = [NoTrigger EXCEPT !.call = call, !.pc = "find",
                           !.base = nid, !.push0 = Len(pushes)]
            /\ nid' = nid
    /\ UNCHANGED <<app, procs, users, notifications, pushes, faults>>
    /\ UNCHANGED syncVars

\* await db.users.find(...).to_list(...), and the first pass of the loop up to
\* insert_one.
FindUsers ==
    /\ trig.pc = "find"
    /\ LET rs == IF trig.call.kind = "promo" THEN all_users ELSE admin_users
       IN  IF rs = <<>>
           THEN /\ trig' = [trig EXCEPT !.pc = "returned"]
                /\ nid' = nid
           ELSE /\ trig' = [trig EXCEPT !.recipients = rs, !.i = 1, !.pc = "insert",
                               !.to = rs[1]._id,
                               !.cur = Some(FanoutNotification(trig.call, rs[1], nid + 1))]
                /\ nid' = nid + 1
    /\ UNCHANGED <<app, procs, users, notifications, pushes, faults, ntrig>>
    /\ UNCHANGED syncVars

\* The record is handed to the live push without having been inserted.
InsertSkipped ==
    /\ trig.pc = "insert"
    /\ trig' = [trig EXCEPT !.pc = "push"]
    /\ UNCHANGED <<app, procs, users, notifications, pushes, nid, faults, ntrig>>
    /\ UNCHANGED syncVars

\* await db.notifications.insert_one(notification)
InsertOne ==
    /\ trig.pc = "insert"
    /\ notifications' = notifications \cup {The(trig.cur)}
    /\ trig' = [trig EXCEPT !.pc = "push"]
    /\ UNCHANGED <<app, procs, users, pushes, nid, faults, ntrig>>
    /\ UNCHANGED syncVars

\* insert_one raises: nothing in create_notification or in the triggers
\* catches it, so it leaves the trigger.
InsertFails ==
    /\ trig.pc = "insert"
    /\ faults < MaxFaults
    /\ faults' = faults + 1
    /\ trig' = [trig EXCEPT !.pc = "raised"]
    /\ UNCHANGED <<app, procs, users, notifications, pushes, nid, ntrig>>
    /\ UNCHANGED syncVars

\* await manager.send_notification(user_id, serialize_doc(notification))
\* returns: the registry delivered the payload, or dropped it because the
\* recipient has no live connection. create_notification returns the record
\* and a fan-out loop appends it and goes on.
SendNotification(outcome) ==
    /\ trig.pc = "push"
    /\ outcome = "dropped" => faults < MaxFaults
    /\ faults' = IF outcome = "dropped" THEN faults + 1 ELSE faults
    /\ pushes' = Append(pushes, [user_id |-> trig.to,
                                 doc |-> SerializeDoc(The(trig.cur)),
                                 outcome |-> outcome])
    /\ trig' = Advance([trig EXCEPT !.created = Append(@, The(trig.cur))])
    /\ nid' = IF trig.i < Len(trig.recipients) THEN nid + 1 ELSE nid
    /\ UNCHANGED <<app, procs, users, notifications, ntrig>>
    /\ UNCHANGED syncVars

\* manager.send_notification raises: the exception leaves create_notification
\* and the trigger.
SendRaises ==
    /\ trig.pc = "push"
    /\ faults < MaxFaults
    /\ faults' = faults + 1
    /\ pushes' = Append(pushes, [user_id |-> trig.to,
                                 doc |-> SerializeDoc(The(trig.cur)),
                                 outcome |-> "raised"])
    /\ trig' = [trig EXCEPT !.pc = "raised"]
    /\ UNCHANGED <<app, procs, users, notifications, nid, ntrig>>
    /\ UNCHANGED syncVars

NextNotif ==
    \/ \E call \in TriggerInputs : StartTrigger(call)
    \/ FindUsers
    \/ InsertOne
    \/ InsertFails
    \/ \E outcome \in {"delivered", "dropped"} : SendNotification(outcome)
    \/ SendRaises

SpecNotif == InitNotif /\ [][NextNotif]_vars

(* ----------------------- notification properties ----------------------- *)

\* The trigger has ended: it returned to its caller or raised.
Ended == trig.pc \in {"returned", "raised"}

\* The records the trigger has persisted and the pushes it has attempted.
Persisted == {n \in notifications : n["_id"] > trig.base}
Attempts == SubSeq(pushes, trig.push0 + 1, Len(pushes))
RecordsOf(u) == {n \in Persisted : n["user_id"] = u}
AttemptsTo(u) == {k \in DOMAIN Attempts : Attempts[k].user_id = u}

\* The trigger ended because insert_one failed (not because a push raised).
InsertFailed ==
    /\ trig.pc = "raised"
    /\ trig.cur # None
    /\ ~(Attempts # <<>> /\ Attempts[Len(Attempts)].outcome = "raised")

\* The recipient set of the fan-out trigger: the non-deleted users, of the
\* admin roles for an admin-activity trigger.
RecipientSet ==
    {users[j] : j \in {k \in DOMAIN users :
        /\ users[k].deleted_at = None
        /\ trig.call.kind = "admin" => users[k].role \in {"owner", "partner", "admin"}}}

\* C15: in a promotional broadcast and in an admin-activity fanout, a failure
\* of one recipient's persist or push does not abort the loop: when the
\* trigger has ended, every recipient other than the one whose persist or
\* push failed has a persisted record and a push attempt.
C15_FanoutIndependent ==
    (trig.call.kind \in {"promo", "admin"} /\ Ended) =>
        \A u \in RecipientSet :
            \/ trig.pc = "raised" /\ trig.to = u._id
            \/ RecordsOf(u._id) # {} /\ AttemptsTo(u._id) # {}

\* C16: no trigger reports a recipient-level failure (a failed persist or a
\* failed live push) to its caller as an error: a trigger never ends raised.
C16_TriggerNeverRaises == trig.pc \in {"idle", "find", "insert", "push", "returned"}

\* A record carries the Arabic pair when the user's preferred_language is ar
\* or is not stored, the English pair otherwise.
LocalizedFor(n, u) ==
    LET lang == IF u.preferred_language = None \/ u.preferred_language = Some("ar")
                THEN "ar" ELSE "en"
    IN  n["title"].lang = lang /\ n["message"].lang = lang

\* C17: a promotional broadcast creates exactly one record per non-deleted
\* user and none for a soft-deleted user, each with type promo, category
\* promotion, read = false and the user's language pair; the returned list
\* has length N. Stated for broadcasts in which no insert failed.
C17_PromoOnePerActiveUser ==
    (trig.call.kind = "promo" /\ Ended /\ ~InsertFailed) =>
        /\ \A j \in DOMAIN users :
              Cardinality(RecordsOf(users[j]._id))
                 = IF users[j].deleted_at = None THEN 1 ELSE 0
        /\ \A j \in DOMAIN users : \A n \in RecordsOf(users[j]._id) :
              /\ n["type"] = "promo"
              /\ n["notification_category"] = "promotion"
              /\ n["read"] = FALSE
              /\ LocalizedFor(n, users[j])
        /\ trig.pc = "returned" => Len(trig.created) = Cardinality(RecipientSet)

\* C18: if the live push for a recipient fails (the recipient is offline, or
\* the registry raises), the record persisted for that recipient is in the
\* notification store from then on.
C18_FailedPushKeepsRecord ==
    \A k \in DOMAIN pushes :
        pushes[k].outcome \in {"dropped", "raised"} =>
            \E n \in notifications : n["_id"] = pushes[k].doc["_id"]

\* C18 witness: a trigger has ended after a push that failed.
C18_Witness ==
    /\ Ended
    /\ \E k \in DOMAIN Attempts : Attempts[k].outcome \in {"dropped", "raised"}
    /\ Persisted # {}

\* C19: an admin-activity trigger creates exactly one notification for every
\* non-deleted user whose role is owner, partner or admin and none for any
\* other user; every record has type admin and the user's language pair.
\* Stated for triggers in which no insert failed.
C19_AdminOnePerAdminUser ==
    (trig.call.kind = "admin" /\ Ended /\ ~InsertFailed) =>
        /\ \A j \in DOMAIN users :
              Cardinality(RecordsOf(users[j]._id))
                 = IF users[j] \in RecipientSet THEN 1 ELSE 0
        /\ \A j \in DOMAIN users : \A n \in RecordsOf(users[j]._id) :
              n["type"] = "admin" /\ LocalizedFor(n, users[j])

\* What C20 says of an ended order-status trigger: one record, one push
\* attempt, both to the given user; category order, read = false, and the
\* order id, order number and status of the call.
OneOrderRecordAndPush ==
    /\ Cardinality(Persisted) = 1
    /\ Len(Attempts) = 1
    /\ \A n \in Persisted :
          /\ n["user_id"] = trig.call.user_id
          /\ n["notification_category"] = "order"
          /\ n["read"] = FALSE
          /\ n["order_id"] = trig.call.order_id
          /\ n["order_number"] = trig.call.order_number
          /\ n["status"] = trig.call.status
    /\ \A k \in DOMAIN Attempts : Attempts[k].user_id = trig.call.user_id

\* C20 as stated: an order-status trigger persists exactly one record and
\* makes exactly one push attempt.
C20_ExactlyOneRecordAndPush ==
    (trig.call.kind = "order" /\ Ended) => OneOrderRecordAndPush

(* ------------------- properties of the rendered texts -------------------- *)

\* The language a claim expects for a passed language: Arabic when none is
\* passed, the language itself for en and ar, English for any other.
ExpectedLang(p) ==
    IF p = None \/ p = Some("ar") THEN "ar" ELSE "en"

\* The severity the specification gives a recognized status.
ExpectedSeverity(status) ==
    IF status \in {"delivered", "completed"} THEN "success"
    ELSE IF status = "cancelled" THEN "warning" ELSE "info"

\* C21: for each of the 8 recognized statuses and each locale of en and ar
\* (Arabic when no locale is passed), the record of the order-status trigger
\* has that status's message template in that locale with the order number
\* substituted, and that status's severity; for shipped in Arabic the title is
\* the Arabic shipped title.
C21_KnownStatusRendering ==
    (/\ trig.call.kind = "order"
     /\ trig.call.status \in KnownStatuses
     /\ trig.call.language \in {None, Some("en"), Some("ar")}) =>
        \A n \in Persisted :
            /\ n["message"] = [kind |-> "status", key |-> trig.call.status,
                               lang |-> ExpectedLang(trig.call.language),
                               arg |-> trig.call.order_number]
            /\ n["type"] = ExpectedSeverity(trig.call.status)
            /\ (trig.call.status = "shipped" /\ ExpectedLang(trig.call.language) = "ar") =>
                   n["title"] = [kind |-> "title", key |-> "shipped", lang |-> "ar", arg |-> ""]

\* C21 witness: the trigger has persisted the record of status shipped with
\* no locale passed.
C21_Witness ==
    /\ trig.call.kind = "order"
    /\ trig.call.status = "shipped"
    /\ trig.call.language = None
    /\ trig.pc = "returned"
    /\ Persisted # {}

\* The trigger ended because insert_one or the push raised.
DispatchFailed == trig.pc = "raised" /\ trig.cur # None

\* C22: for a status that is not one of the 8 recognized ones the order-status
\* trigger still creates one notification, of severity info, with the generic
\* order-update title and the generic message holding the order number and
\* the status with its underscores replaced by spaces; it never fails because
\* the status is unknown.
C22_UnknownStatusFallback ==
    (/\ trig.call.kind = "order"
     /\ trig.call.status \notin KnownStatuses
     /\ Ended
     /\ ~DispatchFailed) =>
        /\ trig.pc = "returned"
        /\ Cardinality(Persisted) = 1
        /\ \A n \in Persisted :
              /\ n["type"] = "info"
              /\ n["title"].kind = "title" /\ n["title"].key = "Order Update"
              /\ n["message"].kind = "fallback"
              /\ n["message"].key = Humanize(trig.call.status)
              /\ n["message"].arg = trig.call.order_number

\* The recipient the n-th record of a fan-out trigger was built for.
RecipientOf(n) == trig.recipients[n["_id"] - trig.base]

\* C23: for every locale other than en and ar (passed to the order-status
\* trigger, or stored as a recipient's preferred_language in a broadcast) the
\* title and the message of the notification are both the English rendering,
\* and for every locale the title and the message of one notification are in
\* the same language.
C23_LocaleFallback ==
    \A n \in Persisted :
        /\ n["title"].lang = n["message"].lang
        /\ (/\ trig.call.kind = "order"
            /\ trig.call.language \notin {None, Some("en"), Some("ar")}) =>
               n["title"].lang = "en" /\ n["message"].lang = "en"
        /\ (/\ trig.call.kind \in {"promo", "admin"}
            /\ RecipientOf(n).preferred_language \notin {None, Some("en"), Some("ar")}) =>
               n["title"].lang = "en" /\ n["message"].lang = "en"

\* The push attempts made for a record.
PushesOf(n) == {k \in DOMAIN pushes : pushes[k].doc["_id"] = n["_id"]}

\* The record whose insert has succeeded and whose push is the next step.
AwaitingPush(n) == trig.pc = "push" /\ trig.cur = Some(n)

\* C24 without its recipient: a push is attempted only for a record that has
\* been inserted, never for one whose insert failed, and every inserted record
\* gets exactly one push attempt, which is the step after its insert.
PersistThenPushOnce ==
    /\ \A k \in DOMAIN Attempts :
          \E n \in notifications : n["_id"] = Attempts[k].doc["_id"]
    /\ \A n \in Persisted :
          Cardinality(PushesOf(n)) = IF AwaitingPush(n) THEN 0 ELSE 1

\* C24: each dispatch persists before it pushes: a push is attempted only
\* after the record has been inserted, never for a record whose insert failed,
\* and every successfully inserted record is followed by exactly one push
\* attempt to the same recipient.
C24_PersistBeforePush ==
    /\ PersistThenPushOnce
    /\ \A n \in Persisted : \A k \in PushesOf(n) : pushes[k].user_id = n["user_id"]

\* C25 without the read flag: a step only adds notification records; every
\* record of the state before the step is in the state after it, unchanged.
NotificationsOnlyGrow == [][notifications \subseteq notifications']_vars

\* C25: notification records are append-only: every step of a trigger only
\* inserts new records, each created with read = false, and leaves every
\* record that existed before unchanged, also when the trigger fails part-way.
C25_AppendOnly ==
    [][/\ notifications \subseteq notifications'
       /\ \A n \in notifications' \ notifications : n["read"] = FALSE]_vars

(* ------------- the sync endpoints and the triggers on one store ---------- *)

\* The two services of the core on one store. A sync step leaves the
\* notification side as it is and a trigger step leaves the sync side as it
\* is, so the requests are run first and the trigger after them; the store
\* holds users and an earlier notification from the start.
CoreConfigs == {EntityCfg("categories", None, 1000), FullCfg(<<>>)}

CoreUsers ==
    <<[_id |-> "u1", role |-> "customer", deleted_at |-> None, preferred_language |-> None],
      [_id |-> "u2", role |-> "admin", deleted_at |-> None, preferred_language |-> Some("en")]>>

CoreTriggers ==
    {OrderCall("u1", "ORD-1", "shipped", Some("o1"), None),
     PromoCall(Some("img"), None, None, None),
     AdminCall("new_user", ClashingExtra)}

InitCore ==
    /\ cfg \in CoreConfigs
    /\ hot = "categories"
    /\ db = Seeded(hot)
    /\ now = 0
    /\ wseq = 0
    /\ mode = "probe"
    /\ req = Idle
    /\ resp = None
    /\ prev = None
    /\ client = [ckpt |-> NoneStr, replica |-> [c \in Collections |-> {}]]
    /\ nreq = 0
    /\ users = CoreUsers
    /\ notifications = {OldRecord}
    /\ pushes = <<>>
    /\ trig = NoTrigger
    /\ nid = 0
    /\ faults = 0
    /\ ntrig = 0
    /\ app = AppDown
    /\ procs = NoProcs

SyncAtRest == req.pc = "idle" /\ nreq >= 1

NextCore ==
    \/ ntrig = 0 /\ Tick
    \/ ntrig = 0 /\ \E c \in Collections, id \in Ids :
          \E u \in OwnerChoices(c), ref \in RefChoices(c) : Create(c, id, u, ref)
    \/ ntrig = 0 /\ \E c \in Collections, id \in Ids : Update(c, id)
    \/ ntrig = 0 /\ \E c \in Collections, id \in Ids : SoftDelete(c, id)
    \/ ntrig = 0 /\ \E ls \in NextLastSync : StartRequest(ls)
    \/ EntityQuery
    \/ EntityTombstone
    \/ FullQuery
    \/ FullTombstone
    \/ Respond
    \/ SyncAtRest /\ \E call \in CoreTriggers : StartTrigger(call)
    \/ FindUsers
    \/ InsertOne
    \/ InsertFails
    \/ \E outcome \in {"delivered", "dropped"} : SendNotification(outcome)
    \/ SendRaises

SpecCore == InitCore /\ [][NextCore]_vars

\* A step of a writer of the storage layer, which is not part of the core.
WriterStep == wseq' # wseq

\* A step of a sync handler, and a step of a trigger.
SyncStep == req' # req
TriggerStep == trig' # trig

\* C26: no sync endpoint, per-entity or combined, changes an entity, a
\* tombstone, a user or a notification of the store; a notification trigger
\* changes the store only by inserting notification records and never touches
\* users or catalog entities.
C26_SyncReadOnlyTriggersInsertOnly ==
    [][/\ SyncStep => db' = db /\ users' = users /\ notifications' = notifications
       /\ TriggerStep => db' = db /\ users' = users /\ notifications \subseteq notifications'
       /\ ~WriterStep => db' = db]_vars

\* C26 witness: a combined request has answered from a store that holds a
\* tombstone, and a trigger has then inserted a notification record next to
\* the earlier one.
C26_Witness ==
    /\ cfg.ep = "full"
    /\ resp # None
    /\ \E d \in db[hot] : d.deleted_at # None
    /\ OldRecord \in notifications
    /\ Persisted # {}

(* ------------------- the combined endpoint and the others ---------------- *)

\* C27: when the combined endpoint is called with no tables parameter, data
\* holds exactly one entry for every entity type that has a per-entity sync
\* endpoint, each with its items and deleted_ids.
C27_DefaultCoversEveryEndpoint ==
    (resp # None /\ cfg.ep = "full" /\ cfg.tables = <<>>) =>
        /\ DOMAIN The(resp).data = {CollOf(ep) : ep \in EntityEndpoints}
        /\ \A k \in DOMAIN The(resp).data :
              DOMAIN The(resp).data[k] = {"items", "deleted_ids"}

(* ------------------------ the orders sync per user ----------------------- *)

\* The orders sync, called without user_id, with an empty user_id, and with
\* the id of each user, on a store that writers fill with orders of both users.
OrderConfigs ==
    {EntityCfg("orders", u, 1000) : u \in {None, Some("")} \cup {Some(x) : x \in Users}}

InitOrders ==
    /\ cfg \in OrderConfigs
    /\ hot = "orders"
    /\ db = Seeded(hot)
    /\ now = 0
    /\ wseq = 0
    /\ mode = "probe"
    /\ req = Idle
    /\ resp = None
    /\ prev = None
    /\ client = [ckpt |-> NoneStr, replica |-> [c \in Collections |-> {}]]
    /\ nreq = 0
    /\ NotifQuiet

NextOrders ==
    \/ Tick
    \/ \E id \in Ids : \E u \in OwnerChoices("orders") : Create("orders", id, u, NoRefs)
    \/ \E id \in Ids : Update("orders", id)
    \/ \E id \in Ids : SoftDelete("orders", id)
    \/ \E ls \in NextLastSync : StartRequest(ls)
    \/ EntityQuery
    \/ EntityTombstone
    \/ Respond

SpecOrders == InitOrders /\ [][NextOrders]_vars

\* The orders that qualify for a response under C28: live, changed after the
\* checkpoint when one was parsed, and of the given user when one is given;
\* and the tombstones: deleted after the parsed checkpoint, of the given user.
OwnedBy(d, user) == user = None \/ d.user_id = user
QualifyingOrders(dt, user) ==
    {d \in db["orders"] :
        /\ d.deleted_at = None
        /\ OwnedBy(d, user)
        /\ (dt # None => d.updated_at > The(dt))}
QualifyingOrderTombstones(dt, user) ==
    {d \in db["orders"] :
        /\ dt # None
        /\ d.deleted_at # None
        /\ The(d.deleted_at) > The(dt)
        /\ OwnedBy(d, user)}

\* The store is as the last response's request read it.
StoreAsRead == resp # None /\ wseq = The(resp).w1 /\ The(resp).w0 = The(resp).w1

\* What C28 says of a response for a user_id parameter.
OrdersAnswerFor(user) ==
    LET r == The(resp)
        dt == parse_timestamp(r.last_sync)
    IN  /\ Range(r.data["orders"].items) = QualifyingOrders(dt, user)
        /\ Range(r.data["orders"].deleted_ids)
              = {d._id : d \in QualifyingOrderTombstones(dt, user)}

\* C28: in the orders sync, when user_id is given every returned order and
\* every id of deleted_ids is of an order of that user, and all of that user's
\* qualifying orders and tombstones are returned; when user_id is absent the
\* orders and tombstones of all users qualify.
C28_OrdersOfTheGivenUser ==
    (StoreAsRead /\ cfg.ep = "orders") => OrdersAnswerFor(cfg.user_id)

(* ---------------- the tombstone ceilings and the two routes -------------- *)

\* C29: the tombstone ceiling of a type is exact: when at least that many
\* entities of the type were soft-deleted after the checkpoint, the sync
\* returns exactly that many ids for the type, on the per-entity endpoint and
\* on the combined endpoint alike.
C29_CeilingIsExact ==
    (resp # None /\ parse_timestamp(The(resp).last_sync) # None) =>
        \A c \in DOMAIN The(resp).data :
            Cardinality(Tombstones(c, parse_timestamp(The(resp).last_sync), None))
                >= TombstoneCeiling(c)
            => Len(The(resp).data[c].deleted_ids) = TombstoneCeiling(c)

\* The per-entity endpoint of an entity type.
EndpointOf(c) == CHOOSE ep \in EntityEndpoints : CollOf(ep) = c

\* What the per-entity endpoint of a type returns for a parsed checkpoint (or
\* none) on the store as it is, called with its default parameters.
DedicatedItems(c, dt) == ItemsQuery(EndpointOf(c), dt, None, limit_of(None))
DedicatedDeletedIds(c, dt) ==
    IF dt # None THEN TombstoneQuery(EndpointOf(c), dt, None) ELSE <<>>

\* C30: the combined endpoint is equivalent, per type, to the dedicated
\* endpoints: on a store that is not written, for every checkpoint and every
\* type of the response, the item ids and the deleted_ids of data[type] are
\* those the type's per-entity endpoint returns for the same checkpoint.
C30_CombinedEqualsDedicated ==
    (StoreAsRead /\ cfg.ep = "full") =>
        \A c \in DOMAIN The(resp).data :
            LET dt == parse_timestamp(The(resp).last_sync)
            IN  /\ IdsOf(The(resp).data[c].items) = IdsOf(DedicatedItems(c, dt))
                /\ Range(The(resp).data[c].deleted_ids) = Range(DedicatedDeletedIds(c, dt))

(* ------------------------ the convenience triggers ----------------------- *)

\* The activity_type C31 gives each convenience trigger.
ExpectedActivity(call) ==
    CASE call.via = "new_user" -> "new_user"
      [] call.via = "product_change" ->
            (CASE call.extra_data.action = "created" -> "product_created"
               [] call.extra_data.action = "updated" -> "product_updated"
               [] call.extra_data.action = "deleted" -> "product_deleted")
      [] call.via = "order_cancelled" -> "order_cancelled"

\* What C31 says of an ended convenience trigger: one record for every
\* non-deleted owner, partner or admin, none for anyone else, each of the
\* trigger's activity_type, and no other record.
OnePerAdminOfActivity ==
    /\ \A j \in DOMAIN users :
          Cardinality(RecordsOf(users[j]._id))
             = IF users[j] \in RecipientSet THEN 1 ELSE 0
    /\ \A n \in Persisted :
          /\ n["activity_type"] = ExpectedActivity(trig.call)
          /\ n["notification_category"] = "admin_activity"
          /\ \E j \in DOMAIN users : n["user_id"] = users[j]._id

\* C31: each convenience trigger (new user, product created, updated or
\* deleted, order cancelled) behaves as one admin-activity trigger: it creates
\* one notification for every non-deleted user with role owner, partner or
\* admin, with activity_type new_user, product_<action> or order_cancelled,
\* and creates nothing else.
C31_ConvenienceIsAdminActivity ==
    (trig.call.via # "" /\ Ended /\ ~InsertFailed) => OnePerAdminOfActivity

\* C31 where no insert and no push raised.
C31_WhenReturned ==
    (trig.call.via # "" /\ trig.pc = "returned") => OnePerAdminOfActivity

(* ------------------------------ result order ----------------------------- *)

\* A sequence of documents is in the order C32 gives the endpoint.
InClaimedOrder(ep, items) ==
    \A i, j \in DOMAIN items : i < j =>
        CASE ep = "products" -> items[i].updated_at >= items[j].updated_at
          [] ep = "categories" ->
                \/ items[i].sort_order < items[j].sort_order
                \/ /\ items[i].sort_order = items[j].sort_order
                   /\ items[i].name <= items[j].name
          [] ep = "orders" -> items[i].created_at >= items[j].created_at
          [] OTHER -> items[i].name <= items[j].name

\* C32: products are returned in non-increasing updated_at, and when more than
\* limit qualify the returned ones are the limit most recently updated;
\* categories are ordered by sort_order then name ascending; car brands, car
\* models and product brands by name ascending; orders by created_at
\* descending.
C32_ResultOrder ==
    (resp # None /\ cfg.ep # "full") =>
        LET r == The(resp)
            items == r.data[CollOf(cfg.ep)].items
            qualifying == ChangeSet("products", parse_timestamp(r.last_sync), None)
        IN  /\ InClaimedOrder(cfg.ep, items)
            /\ (cfg.ep = "products" /\ Fresh /\ Cardinality(qualifying) > cfg.limit) =>
                  /\ Len(items) = cfg.limit
                  /\ \A i \in DOMAIN items : \A q \in qualifying :
                        q._id \notin IdsOf(items) => items[i].updated_at >= q.updated_at

\* C32 witness: a products request with limit 1 has returned the later
\* updated of two qualifying products.
C32_Witness ==
    /\ resp # None /\ cfg.ep = "products" /\ cfg.limit = 1 /\ Fresh
    /\ Len(The(resp).data["products"].items) = 1
    /\ \E q \in ChangeSet("products", parse_timestamp(The(resp).last_sync), None) :
          q.updated_at < The(resp).data["products"].items[1].updated_at

(* --------------------------- product enrichment -------------------------- *)

\* The name of the entity of collection c with the given id, or null when the
\* id is null or no such entity is in the store.
NameOrNull(c, key) ==
    IF key # None /\ \E e \in db[c] : e._id = The(key)
    THEN Some((CHOOSE e \in db[c] : e._id = The(key)).name)
    ELSE None

\* What C33 says of one returned product: its enrichment fields are those of
\* its brand, of the first id of its car model list and of that model's car
\* brand, each null when the related entity is missing, and its count is the
\* length of the list.
EnrichedLeftOuter(item) ==
    LET p == Doc("products", item._id)
        first == IF p.car_model_ids = <<>> THEN None ELSE Some(p.car_model_ids[1])
        model == {e \in db["car_models"] : first # None /\ e._id = The(first)}
    IN  /\ item.product_brand_name = NameOrNull("product_brands", p.product_brand_id)
        /\ item.compatible_car_model = NameOrNull("car_models", first)
        /\ item.compatible_car_brand
              = IF model = {} THEN None
                ELSE NameOrNull("car_brands", (CHOOSE e \in model : TRUE).brand_id)
        /\ item.compatible_car_models_count = Len(p.car_model_ids)

\* C33: product enrichment is left-outer: a qualifying product whose brand,
\* first compatible car model or that model's car brand is missing from the
\* store is still returned exactly once, with the corresponding enrichment
\* fields null; enrichment never drops or duplicates a product, the car-model
\* fields come from the first id of the product's car model list, and
\* compatible_car_models_count is the length of that list.
C33_EnrichmentLeftOuter ==
    (Fresh /\ cfg.ep = "products") =>
        LET items == The(resp).data["products"].items
            qualifying == ChangeSet("products", parse_timestamp(The(resp).last_sync), None)
        IN  /\ \A i, j \in DOMAIN items : items[i]._id = items[j]._id => i = j
            /\ IdsOf(items) \subseteq {q._id : q \in qualifying}
            /\ Cardinality(qualifying) <= cfg.limit =>
                  IdsOf(items) = {q._id : q \in qualifying}
            /\ \A i \in DOMAIN items : EnrichedLeftOuter(items[i])

\* C33 witness: a returned product that names a brand and a list of car
\* models while its brand is not in the store, with null brand fields.
C33_Witness ==
    /\ Fresh /\ cfg.ep = "products"
    /\ \E i \in DOMAIN The(resp).data["products"].items :
          LET item == The(resp).data["products"].items[i]
          IN  /\ item.product_brand_id # None
              /\ ~Has("product_brands", The(item.product_brand_id))
              /\ item.product_brand_name = None
              /\ item.compatible_car_models_count = 2

(* ----------------------- the core fields of a record --------------------- *)

\* C34: for every extra payload passed to a trigger the persisted notification
\* keeps its core fields: its recipient id is the user the push is addressed
\* to, its read flag is false, its type is the trigger's severity (admin for
\* admin activity, promo for promotions) and its category is the trigger's
\* category (admin_activity, promotion or order).
C34_ExtraKeepsCoreFields ==
    \A n \in Persisted :
        /\ \A k \in PushesOf(n) : n["user_id"] = pushes[k].user_id
        /\ n["read"] = FALSE
        /\ trig.call.kind = "admin" =>
              n["type"] = "admin" /\ n["notification_category"] = "admin_activity"
        /\ trig.call.kind = "promo" =>
              n["type"] = "promo" /\ n["notification_category"] = "promotion"
        /\ trig.call.kind = "order" => n["notification_category"] = "order"

(* ---------------------- two broadcasts side by side ---------------------- *)

\* Two broadcasts run as two coroutines of one event loop: each await (the
\* read of db.users, every insert_one, every push) is a point where the other
\* may run. procs[p] is the state of broadcast p, shaped as trig; the store,
\* the registry and the ids handed out are shared.
Broadcasts == {1, 2}

BroadcastUsers ==
    <<[_id |-> "u1", role |-> "admin", deleted_at |-> None, preferred_language |-> Some("ar")],
      [_id |-> "u2", role |-> "owner", deleted_at |-> None, preferred_language |-> Some("en")]>>

PromoOf(texts) == [PromoCall(Some("img"), None, None, None) EXCEPT !.texts = texts]
AdminOf(texts) == [AdminCall("new_user", [user_email |-> "x@y"]) EXCEPT !.texts = texts]

BroadcastPairs ==
    {<<PromoOf("A"), PromoOf("B")>>, <<PromoOf("A"), AdminOf("B")>>,
     <<AdminOf("A"), AdminOf("B")>>}

InitTwo ==
    /\ SyncQuiet
    /\ users = BroadcastUsers
    /\ notifications = {}
    /\ pushes = <<>>
    /\ trig = NoTrigger
    /\ nid = 0
    /\ faults = 0
    /\ ntrig = 0
    /\ app = AppDown
    /\ \E calls \in BroadcastPairs :
          procs = [p \in Broadcasts |-> [NoTrigger EXCEPT !.call = calls[p]]]

\* The broadcast is called and reaches its read of db.users.
StartBroadcast(p) ==
    /\ procs[p].pc = "idle"
    /\ procs' = [procs EXCEPT ![p].pc = "find"]
    /\ UNCHANGED <<app, users, notifications, pushes, trig, nid, faults, ntrig>>
    /\ UNCHANGED syncVars

\* await db.users.find(...).to_list(...), and the first pass of the loop up to
\* insert_one.
FindUsersOf(p) ==
    /\ procs[p].pc = "find"
    /\ LET rs == IF procs[p].call.kind = "promo" THEN all_users ELSE admin_users
       IN  IF rs = <<>>
           THEN /\ procs' = [procs EXCEPT ![p].pc = "returned"]
                /\ nid' = nid
           ELSE /\ procs' = [procs EXCEPT
                               ![p].recipients = rs, ![p].i = 1, ![p].pc = "insert",
                               ![p].to = rs[1]._id,
                               ![p].cur = Some(FanoutNotification(procs[p].call, rs[1],
                                                                  nid + 1))]
                /\ nid' = nid + 1
    /\ UNCHANGED <<app, users, notifications, pushes, trig, faults, ntrig>>
    /\ UNCHANGED syncVars

\* await db.notifications.insert_one(notification)
InsertOneOf(p) ==
    /\ procs[p].pc = "insert"
    /\ notifications' = notifications \cup {The(procs[p].cur)}
    /\ procs' = [procs EXCEPT ![p].pc = "push"]
    /\ UNCHANGED <<app, users, pushes, trig, nid, faults, ntrig>>
    /\ UNCHANGED syncVars

\* insert_one raises and leaves the broadcast.
InsertFailsOf(p) ==
    /\ procs[p].pc = "insert"
    /\ faults < MaxFaults
    /\ faults' = faults + 1
    /\ procs' = [procs EXCEPT ![p].pc = "raised"]
    /\ UNCHANGED <<app, users, notifications, pushes, trig, nid, ntrig>>
    /\ UNCHANGED syncVars

\* await manager.send_notification(...) returns; the loop appends the record
\* and goes on to the next recipient, or the broadcast returns its list.
SendNotificationOf(p) ==
    /\ procs[p].pc = "push"
    /\ pushes' = Append(pushes, [user_id |-> procs[p].to,
                                 doc |-> SerializeDoc(The(procs[p].cur)),
                                 outcome |-> "delivered"])
    /\ procs' = [procs EXCEPT
                    ![p] = Advance([@ EXCEPT !.created = Append(@, The(procs[p].cur))])]
    /\ nid' = IF procs[p].i < Len(procs[p].recipients) THEN nid + 1 ELSE nid
    /\ UNCHANGED <<app, users, notifications, trig, faults, ntrig>>
    /\ UNCHANGED syncVars

\* manager.send_notification raises and leaves the broadcast.
SendRaisesOf(p) ==
    /\ procs[p].pc = "push"
    /\ faults < MaxFaults
    /\ faults' = faults + 1
    /\ pushes' = Append(pushes, [user_id |-> procs[p].to,
                                 doc |-> SerializeDoc(The(procs[p].cur)),
                                 outcome |-> "raised"])
    /\ procs' = [procs EXCEPT ![p].pc = "raised"]
    /\ UNCHANGED <<app, users, notifications, trig, nid, ntrig>>
    /\ UNCHANGED syncVars

NextTwo ==
    \/ \E p \in Broadcasts : StartBroadcast(p)
    \/ \E p \in Broadcasts : FindUsersOf(p)
    \/ \E p \in Broadcasts : InsertOneOf(p)
    \/ \E p \in Broadcasts : InsertFailsOf(p)
    \/ \E p \in Broadcasts : SendNotificationOf(p)
    \/ \E p \in Broadcasts : SendRaisesOf(p)

SpecTwo == InitTwo /\ [][NextTwo]_vars

\* The records in the store that carry the title and message of broadcast p.
OwnRecords(p) ==
    {n \in notifications :
        /\ n["title"].arg = procs[p].call.texts
        /\ n["message"].arg = procs[p].call.texts
        /\ n["type"] = (IF procs[p].call.kind = "promo" THEN "promo" ELSE "admin")}

\* What C35 says of broadcast p: it has created one record with its own title
\* and message for each of the N users and has returned exactly those.
CreatedAndReturnedOwn(p) ==
    /\ procs[p].pc = "returned"
    /\ Cardinality(OwnRecords(p)) = Len(BroadcastUsers)
    /\ \A j \in DOMAIN BroadcastUsers :
          Cardinality({n \in OwnRecords(p) : n["user_id"] = BroadcastUsers[j]._id}) = 1
    /\ Len(procs[p].created) = Len(BroadcastUsers)
    /\ Range(procs[p].created) = OwnRecords(p)

BothEnded == procs # NoProcs /\ \A p \in Broadcasts : procs[p].pc \in {"returned", "raised"}

\* C35: two broadcasts running side by side over the same N users, their
\* persist and push steps interleaved in any order, each create exactly N
\* records with their own title and message and each return exactly their own
\* N records; no record is lost, duplicated or attributed to the other.
C35_BroadcastsIndependent ==
    BothEnded =>
        /\ \A p \in Broadcasts : CreatedAndReturnedOwn(p)
        /\ Cardinality(notifications) = 2 * Len(BroadcastUsers)

\* C35 where no insert and no push raised.
C35_WhenBothReturned ==
    (procs # NoProcs /\ \A p \in Broadcasts : procs[p].pc = "returned") =>
        /\ \A p \in Broadcasts : CreatedAndReturnedOwn(p)
        /\ Cardinality(notifications) = 2 * Len(BroadcastUsers)

(* ------------------------- the application lifespan ---------------------- *)

\* The process is started (again, after it stopped or failed to start).
StartApp ==
    /\ app.pc \in {"down", "stopped", "failed"}
    /\ app.runs < MaxRuns
    /\ app' = [app EXCEPT !.pc = "connect", !.conn = FALSE, !.log = <<>>,
                          !.runs = @ + 1, !.existing_brands = 0]
    /\ UNCHANGED <<users, notifications, pushes, trig, nid, faults, ntrig, procs>>
    /\ UNCHANGED syncVars

\* database = await connect_to_mongo()
ConnectToMongo ==
    /\ app.pc = "connect"
    /\ app' = [app EXCEPT !.pc = "indexes", !.conn = TRUE, !.log = Append(@, "connect")]
    /\ UNCHANGED <<users, notifications, pushes, trig, nid, faults, ntrig, procs>>
    /\ UNCHANGED syncVars

\* await create_database_indexes()
CreateDatabaseIndexes ==
    /\ app.pc = "indexes"
    /\ app' = [app EXCEPT !.pc = "count", !.log = Append(@, "indexes")]
    /\ UNCHANGED <<users, notifications, pushes, trig, nid, faults, ntrig, procs>>
    /\ UNCHANGED syncVars

\* The count taken as if the collection were empty.
CountBrandsAsEmpty ==
    /\ app.pc = "count"
    /\ app' = [app EXCEPT !.existing_brands = 0, !.pc = "seed"]
    /\ UNCHANGED <<users, notifications, pushes, trig, nid, faults, ntrig, procs>>
    /\ UNCHANGED syncVars

\* existing_brands = await database.car_brands.count_documents({}), and the
\* test `if existing_brands == 0`.
CountBrands ==
    /\ app.pc = "count"
    /\ LET n == Cardinality(db["car_brands"])
       IN  app' = [app EXCEPT !.existing_brands = n,
                              !.pc = IF n = 0 THEN "seed" ELSE "yield"]
    /\ UNCHANGED <<users, notifications, pushes, trig, nid, faults, ntrig, procs>>
    /\ UNCHANGED syncVars

\* What seed_database leaves in car_brands: its first car brand.
SeedBrand == NewDoc("car_brands", IdSeq[1], now, "u1", NoRefs)

\* await seed_database()
SeedDatabase ==
    /\ app.pc = "seed"
    /\ db' = [db EXCEPT !["car_brands"] = @ \cup {SeedBrand}]
    /\ app' = [app EXCEPT !.pc = "yield", !.seeds = @ + 1, !.log = Append(@, "seed")]
    /\ UNCHANGED <<now, wseq, cfg, mode, hot, req, resp, prev, client, nreq>>
    /\ UNCHANGED <<users, notifications, pushes, trig, nid, faults, ntrig, procs>>

\* A startup step raises: the exception leaves lifespan before its yield and
\* the application does not start. A seeding that raises may have inserted
\* its car brands already.
StartupFails ==
    /\ app.pc \in {"connect", "indexes", "count", "seed"}
    /\ faults < MaxFaults
    /\ faults' = faults + 1
    /\ app' = [app EXCEPT !.pc = "failed"]
    /\ \/ db' = db
       \/ app.pc = "seed" /\ db' = [db EXCEPT !["car_brands"] = @ \cup {SeedBrand}]
    /\ UNCHANGED <<now, wseq, cfg, mode, hot, req, resp, prev, client, nreq>>
    /\ UNCHANGED <<users, notifications, pushes, trig, nid, ntrig, procs>>

\* yield: the application serves requests.
Serve ==
    /\ app.pc = "yield"
    /\ app' = [app EXCEPT !.pc = "serving", !.log = Append(@, "serve")]
    /\ UNCHANGED <<users, notifications, pushes, trig, nid, faults, ntrig, procs>>
    /\ UNCHANGED syncVars

\* Shutdown: await close_mongo_connection()
Shutdown ==
    /\ app.pc = "serving"
    /\ app' = [app EXCEPT !.pc = "stopped", !.conn = FALSE, !.log = Append(@, "close")]
    /\ UNCHANGED <<users, notifications, pushes, trig, nid, faults, ntrig, procs>>
    /\ UNCHANGED syncVars

\* The store is empty of car brands or holds one; while the application
\* serves, writers create and soft-delete car brands.
InitLife ==
    /\ cfg = EntityCfg("car-brands", None, 1000)
    /\ hot = "car_brands"
    /\ db \in {Seeded("car_brands"), Seeded("products")}
    /\ now = 0
    /\ wseq = 0
    /\ mode = "probe"
    /\ req = Idle
    /\ resp = None
    /\ prev = None
    /\ client = [ckpt |-> NoneStr, replica |-> [c \in Collections |-> {}]]
    /\ nreq = 0
    /\ NotifQuiet

NextLife ==
    \/ StartApp
    \/ ConnectToMongo
    \/ CreateDatabaseIndexes
    \/ CountBrands
    \/ SeedDatabase
    \/ StartupFails
    \/ Serve
    \/ Shutdown
    \/ Tick
    \/ app.pc = "serving" /\ \E id \in Ids : Create("car_brands", id, "u1", NoRefs)
    \/ app.pc = "serving" /\ \E id \in Ids : SoftDelete("car_brands", id)

SpecLife == InitLife /\ [][NextLife]_vars

====
